---- MODULE Spec2Model ----
(***************************************************************************)
(* Bank-statement import and deduplication of BudgetAgent:                 *)
(*   budgetagent/modules/import_bank_data.py  (load, detect, normalise,    *)
(*                                             parse, import_and_parse)    *)
(*   budgetagent/modules/account_manager.py   (the account registry)       *)
(*   budgetagent/modules/models.py            (Transaction, Account)       *)
(*                                                                         *)
(* Text is modelled by TLA+ strings.  str.replace, str.strip, str.lower,   *)
(* pandas.to_datetime and decimal.Decimal are given by their value on the  *)
(* strings that occur in the files of the modelled file system (FS).       *)
(* SHA-256 and MD5 are modelled as injective: a digest is the digested     *)
(* text (or file content) itself, tagged.                                  *)
(***************************************************************************)
EXTENDS Integers, Sequences, FiniteSets, TLC

VARIABLES
  registry,        \* the accounts.yaml document at ACCOUNTS_DB_PATH
  now,             \* datetime.now(), in ticks
  last,            \* the last call: its arguments and what it returned
  returned,        \* history: <<account, hash>> of the transactions that dedup-enabled
                   \* imports returned since the account was last deleted
  procs            \* the import_and_parse calls running in processes of their own:
                   \* the position and the locals of each

vars == <<registry, now, last, returned, procs>>

\* Number of readings of datetime.now() a run may take (one per file record).
MaxClock == 2

None == "None"
\* A missing cell of a DataFrame (numpy.nan).
NaN == "NaN"

(***************************************************************************)
(* Text primitives, by their value on the strings of the file system       *)
(***************************************************************************)

\* str.lower() on the column names that occur
lower(s) ==
  CASE s = "Bokföringsdatum" -> "bokföringsdatum"
    [] s = "Bokföringsdag" -> "bokföringsdag"
    [] s = "Valutadatum" -> "valutadatum"
    [] s = "Belopp" -> "belopp"
    [] s = "Rubrik" -> "rubrik"
    [] s = "Namn" -> "namn"
    [] s = "Avsändare" -> "avsändare"
    [] s = "Mottagare" -> "mottagare"
    [] s = "Saldo" -> "saldo"
    [] s = "Valuta" -> "valuta"
    [] s = "Datum" -> "datum"
    [] s = "Beskrivning" -> "beskrivning"
    [] s = "Completed Date" -> "completed date"
    [] s = "Description" -> "description"
    [] s = "Amount" -> "amount"
    [] s = "Currency" -> "currency"
    [] s = "Date" -> "date"
    [] s = "SEK" -> "sek"
    [] s = "NaN" -> "nan"
    [] s = "BOKFÖRINGSDATUM" -> "bokföringsdatum"
    [] s = "BOKFÖRINGSDAG" -> "bokföringsdag"
    [] s = "VALUTADATUM" -> "valutadatum"
    [] s = "BELOPP" -> "belopp"
    [] s = "RUBRIK" -> "rubrik"
    [] s = "NAMN" -> "namn"
    [] s = "AVSÄNDARE" -> "avsändare"
    [] s = "MOTTAGARE" -> "mottagare"
    [] s = "SALDO" -> "saldo"
    [] s = "VALUTA" -> "valuta"
    [] s = "DATUM" -> "datum"
    [] s = "BESKRIVNING" -> "beskrivning"
    [] s = "COMPLETED DATE" -> "completed date"
    [] s = "DESCRIPTION" -> "description"
    [] s = "AMOUNT" -> "amount"
    [] s = "CURRENCY" -> "currency"
    [] OTHER -> s

\* str.upper() on the cell values that occur
upper(s) ==
  CASE s = "sek" -> "SEK"
    [] s = "eur" -> "EUR"
    [] s = "Bokföringsdatum" -> "BOKFÖRINGSDATUM"
    [] s = "Bokföringsdag" -> "BOKFÖRINGSDAG"
    [] s = "Valutadatum" -> "VALUTADATUM"
    [] s = "Belopp" -> "BELOPP"
    [] s = "Rubrik" -> "RUBRIK"
    [] s = "Namn" -> "NAMN"
    [] s = "Avsändare" -> "AVSÄNDARE"
    [] s = "Mottagare" -> "MOTTAGARE"
    [] s = "Saldo" -> "SALDO"
    [] s = "Valuta" -> "VALUTA"
    [] s = "Datum" -> "DATUM"
    [] s = "Beskrivning" -> "BESKRIVNING"
    [] s = "Completed Date" -> "COMPLETED DATE"
    [] s = "Description" -> "DESCRIPTION"
    [] s = "Amount" -> "AMOUNT"
    [] s = "Currency" -> "CURRENCY"
    [] s = "bokföringsdatum" -> "BOKFÖRINGSDATUM"
    [] s = "bokföringsdag" -> "BOKFÖRINGSDAG"
    [] s = "valutadatum" -> "VALUTADATUM"
    [] s = "belopp" -> "BELOPP"
    [] s = "rubrik" -> "RUBRIK"
    [] s = "namn" -> "NAMN"
    [] s = "avsändare" -> "AVSÄNDARE"
    [] s = "mottagare" -> "MOTTAGARE"
    [] s = "saldo" -> "SALDO"
    [] s = "valuta" -> "VALUTA"
    [] s = "datum" -> "DATUM"
    [] s = "beskrivning" -> "BESKRIVNING"
    [] s = "completed date" -> "COMPLETED DATE"
    [] s = "description" -> "DESCRIPTION"
    [] s = "amount" -> "AMOUNT"
    [] s = "currency" -> "CURRENCY"
    [] OTHER -> s

\* str.strip()
strip(s) ==
  CASE s = " " -> ""
    [] s = " Bensin " -> "Bensin"
    [] s = "SEK " -> "SEK"
    [] OTHER -> s

\* str.replace(',', '.')
replace_comma(s) ==
  CASE s = "-500,00" -> "-500.00"
    [] s = "-3737,5" -> "-3737.5"
    [] s = "4995,52" -> "4995.52"
    [] s = "1 250,00" -> "1 250.00"
    [] OTHER -> s

\* str.replace(' ', '')
replace_space(s) ==
  CASE s = "1 250.00" -> "1250.00"
    [] s = "SEK " -> "SEK"
    [] OTHER -> s

\* The strings decimal.Decimal accepts; str(Decimal(s)) is s for each of them.
DecimalStrings ==
  {"-350.5", "-120.0", "-75.0", "28000.0", "-500.00", "-3737.5", "4995.52",
   "4920.52", "1250.00", "0.0", "0", "0.00", "-42.0"}

\* The Decimals equal to zero.
ZeroDecimals == {"0.0", "0", "0.00"}

\* pandas.to_datetime(s).date(), as an ISO string, on the strings it accepts
DateStrings ==
  {"2025-01-15", "2025-01-16", "2025-01-17", "2025-01-25", "2025/10/21"}

to_date(s) ==
  CASE s = "2025/10/21" -> "2025-10-21"
    [] OTHER -> s

(***************************************************************************)
(* hashing (account_manager.py)                                            *)
(***************************************************************************)

\* The digested text with the category in it
transaction_str_with_category(t) ==
  t.date \o "|" \o t.amount \o "|" \o t.description \o "|" \o t.currency
    \o "|" \o t.category

\* The text calculate_transaction_hash digests.
transaction_str(t) ==
  t.date \o "|" \o t.amount \o "|" \o t.description \o "|" \o t.currency

calculate_transaction_hash(t) == <<"sha256", transaction_str(t)>>

(***************************************************************************)
(* DataFrames: [columns |-> sequence of names, rows |-> sequence of        *)
(* records over these names]                                               *)
(***************************************************************************)

Range(s) == {s[i] : i \in 1..Len(s)}

HasColumn(data, c) == c \in Range(data.columns)

Column(data, c) == [i \in 1..Len(data.rows) |-> data.rows[i][c]]

dropna(col) == SelectSeq(col, LAMBDA v : v # NaN)

isna_all(col) == \A i \in 1..Len(col) : col[i] = NaN

iloc_last(col) == col[Len(col)]

iloc_first(col) == col[1]

NoData == [columns |-> <<>>, rows |-> <<>>]

(***************************************************************************)
(* detect_format                                                           *)
(***************************************************************************)

\* detect_format comparing the column names as they are written
detect_format_case_sensitive(data) ==
  LET columns == Range(data.columns) IN
  IF Len(data.rows) = 0 \/ Len(data.columns) = 0 THEN "Unknown"
  ELSE IF /\ ("bokföringsdatum" \in columns \/ "bokföringsdag" \in columns)
          /\ "belopp" \in columns
          /\ ("rubrik" \in columns \/ "namn" \in columns
                \/ ("avsändare" \in columns \/ "mottagare" \in columns))
          /\ ~("saldo" \in columns /\ "valutadatum" \notin columns
                 /\ "rubrik" \notin columns)
    THEN "Nordea"
  ELSE IF "datum" \in columns /\ "belopp" \in columns /\ "beskrivning" \in columns
    THEN "Swedbank"
  ELSE IF "bokföringsdatum" \in columns /\ "saldo" \in columns
    THEN "SEB"
  ELSE IF \/ "completed date" \in columns
          \/ ("description" \in columns /\ "amount" \in columns
                /\ "currency" \in columns)
    THEN "Revolut"
  ELSE IF /\ \E c \in {"date", "datum"} : c \in columns
          /\ \E c \in {"amount", "belopp"} : c \in columns
    THEN "Generic"
  ELSE "Unknown"

detect_format(data) ==
  LET columns == {lower(c) : c \in Range(data.columns)} IN
  IF Len(data.rows) = 0 \/ Len(data.columns) = 0 THEN "Unknown"
  ELSE IF /\ ("bokföringsdatum" \in columns \/ "bokföringsdag" \in columns)
          /\ "belopp" \in columns
          /\ ("rubrik" \in columns \/ "namn" \in columns
                \/ ("avsändare" \in columns \/ "mottagare" \in columns))
          /\ ~("saldo" \in columns /\ "valutadatum" \notin columns
                 /\ "rubrik" \notin columns)
    THEN "Nordea"
  ELSE IF "datum" \in columns /\ "belopp" \in columns /\ "beskrivning" \in columns
    THEN "Swedbank"
  ELSE IF "bokföringsdatum" \in columns /\ "saldo" \in columns
    THEN "SEB"
  ELSE IF \/ "completed date" \in columns
          \/ ("description" \in columns /\ "amount" \in columns
                /\ "currency" \in columns)
    THEN "Revolut"
  ELSE IF /\ \E c \in {"date", "datum"} : c \in columns
          /\ \E c \in {"amount", "belopp"} : c \in columns
    THEN "Generic"
  ELSE "Unknown"

(***************************************************************************)
(* normalize_columns                                                       *)
(***************************************************************************)

\* column_mapping: the set of <<raw name, canonical name>> pairs.
column_mapping(data, format) ==
  IF format = "Nordea" THEN
    (IF HasColumn(data, "Bokföringsdatum") THEN {<<"Bokföringsdatum", "date">>}
     ELSE IF HasColumn(data, "Bokföringsdag") THEN {<<"Bokföringsdag", "date">>}
     ELSE {})
    \cup {<<"Belopp", "amount">>}
    \cup (IF HasColumn(data, "Rubrik") /\ ~isna_all(Column(data, "Rubrik"))
            THEN {<<"Rubrik", "description">>}
          ELSE IF HasColumn(data, "Namn") /\ ~isna_all(Column(data, "Namn"))
            THEN {<<"Namn", "description">>}
          ELSE IF HasColumn(data, "Avsändare") THEN {<<"Avsändare", "description">>}
          ELSE IF HasColumn(data, "Mottagare") THEN {<<"Mottagare", "description">>}
          ELSE {})
    \cup (IF HasColumn(data, "Saldo") /\ HasColumn(data, "Valuta")
            THEN IF isna_all(Column(data, "Valuta"))
                   THEN {<<"Saldo", "currency">>}
                   ELSE {<<"Valuta", "currency">>}
          ELSE IF HasColumn(data, "Valuta") THEN {<<"Valuta", "currency">>}
          ELSE IF HasColumn(data, "Saldo") THEN {<<"Saldo", "currency">>}
          ELSE {})
  ELSE IF format = "Swedbank" THEN
    {<<"Datum", "date">>, <<"Belopp", "amount">>,
     <<"Beskrivning", "description">>, <<"Valuta", "currency">>}
  ELSE IF format = "SEB" THEN
    {<<"Bokföringsdatum", "date">>, <<"Belopp", "amount">>,
     <<"Mottagare", "description">>, <<"Valuta", "currency">>}
  ELSE IF format = "Revolut" THEN
    {<<"Completed Date", "date">>, <<"Amount", "amount">>,
     <<"Description", "description">>, <<"Currency", "currency">>}
  ELSE \* Generic
    {<<c, "date">> : c \in {c \in Range(data.columns) : lower(c) \in {"date", "datum"}}}
    \cup {<<c, "amount">> : c \in {c \in Range(data.columns) : lower(c) \in {"amount", "belopp"}}}
    \cup {<<c, "description">> :
            c \in {c \in Range(data.columns) :
                     lower(c) \in {"description", "beskrivning", "rubrik"}}}
    \cup {<<c, "currency">> : c \in {c \in Range(data.columns) : lower(c) \in {"currency", "valuta"}}}

CanonicalColumns == <<"date", "amount", "description", "currency">>

\* The raw column renamed to canonical name k (the files modelled rename at most
\* one column to each canonical name).
renamed_from(data, format, k) ==
  CHOOSE c \in Range(data.columns) : <<c, k>> \in column_mapping(data, format)

normalize_columns(data, format) ==
  IF format \notin {"Nordea", "Swedbank", "SEB", "Revolut", "Generic"} THEN data
  ELSE
    LET mapped == {k \in Range(CanonicalColumns) :
                     \E c \in Range(data.columns) : <<c, k>> \in column_mapping(data, format)}
        \* df['currency'] = 'SEK' when no column was renamed to currency
        available == SelectSeq(CanonicalColumns, LAMBDA k : k \in mapped \/ k = "currency")
    IN [columns |-> available,
        rows |-> [i \in 1..Len(data.rows) |->
                    [k \in Range(available) |->
                       IF k \in mapped THEN data.rows[i][renamed_from(data, format, k)]
                       ELSE "SEK"]]]

\* DataFrame.dropna(how='all')
dropna_all(data) ==
  [columns |-> data.columns,
   rows |-> SelectSeq(data.rows, LAMBDA r : \E k \in Range(data.columns) : r[k] # NaN)]

(***************************************************************************)
(* extract_balance_info: [raised, info], info <<>> (None) or <<balance,     *)
(* date, currency>>                                                        *)
(***************************************************************************)

\* Decimal(str(v).replace(',', '.').replace(' ', '')) under try / except: pass
balance_text(v) == replace_space(replace_comma(v))

parses_as_decimal(v) == balance_text(v) \in DecimalStrings

\* The last non-null value of the date column, None without one.
last_date_text(data, c) ==
  IF dropna(Column(data, c)) = <<>> THEN None ELSE iloc_last(dropna(Column(data, c)))

nordea_date_text(data) ==
  IF HasColumn(data, "Bokföringsdatum") THEN last_date_text(data, "Bokföringsdatum")
  ELSE IF HasColumn(data, "Bokföringsdag") THEN last_date_text(data, "Bokföringsdag")
  ELSE None

CurrencyCodes == {"SEK", "EUR", "USD", "NOK", "DKK"}

\* currency = raw_data['Valuta'].dropna().iloc[0] when the column has a value
valuta_or(data, default) ==
  IF HasColumn(data, "Valuta") /\ ~isna_all(Column(data, "Valuta"))
    THEN iloc_first(dropna(Column(data, "Valuta")))
    ELSE default

last_decimal_or_none(col) ==
  IF ~isna_all(col) /\ parses_as_decimal(iloc_last(dropna(col)))
    THEN balance_text(iloc_last(dropna(col)))
    ELSE None

\* Fall 1 and Fall 2 of the Nordea branch: [balance, currency]
nordea_named_balance(data) ==
  IF HasColumn(data, "Saldo") /\ HasColumn(data, "Rubrik") /\ HasColumn(data, "Valuta")
    THEN LET saldo_sample == dropna(Column(data, "Saldo")) IN
         IF saldo_sample = <<>> THEN [balance |-> None, currency |-> "SEK"]
         ELSE LET first_val == upper(strip(iloc_first(saldo_sample))) IN
              IF first_val \in CurrencyCodes
                THEN [balance |-> last_decimal_or_none(Column(data, "Rubrik")),
                      currency |-> first_val]
                ELSE [balance |-> last_decimal_or_none(saldo_sample),
                      currency |-> valuta_or(data, "SEK")]
  ELSE IF HasColumn(data, "Saldo")
    THEN [balance |-> last_decimal_or_none(Column(data, "Saldo")),
          currency |-> valuta_or(data, "SEK")]
  ELSE [balance |-> None, currency |-> "SEK"]

NordeaClaimedColumns ==
  {"Belopp", "Bokföringsdatum", "Bokföringsdag", "Rubrik", "Namn",
   "Avsändare", "Mottagare", "Valuta"}

\* Fall 3: the first unclaimed column whose last non-null value is a decimal
nordea_scanned_balance(data) ==
  LET hits == {i \in 1..Len(data.columns) :
                 /\ data.columns[i] \notin NordeaClaimedColumns
                 /\ last_decimal_or_none(Column(data, data.columns[i])) # None}
  IN IF hits = {} THEN None
     ELSE last_decimal_or_none(
            Column(data, data.columns[CHOOSE i \in hits : \A j \in hits : i <= j]))

extract_balance_info(raw_data, bank_format) ==
  LET date_text ==
        IF bank_format = "Nordea" THEN nordea_date_text(raw_data)
        ELSE IF bank_format = "SEB" /\ HasColumn(raw_data, "Bokföringsdatum")
          THEN last_date_text(raw_data, "Bokföringsdatum")
        ELSE None
      named == IF bank_format = "Nordea" THEN nordea_named_balance(raw_data)
               ELSE IF bank_format = "SEB"
                 THEN [balance |-> IF HasColumn(raw_data, "Saldo")
                                     THEN last_decimal_or_none(Column(raw_data, "Saldo"))
                                     ELSE None,
                       currency |-> valuta_or(raw_data, "SEK")]
               ELSE [balance |-> None, currency |-> "SEK"]
      balance == IF bank_format = "Nordea" /\ named.balance = None
                   THEN nordea_scanned_balance(raw_data)
                   ELSE named.balance
  IN IF date_text # None /\ date_text \notin DateStrings
       THEN [raised |-> "DateParseError", info |-> <<>>]   \* pd.to_datetime raises
     ELSE IF balance # None /\ date_text # None
       THEN [raised |-> None, info |-> <<balance, to_date(date_text), named.currency>>]
     ELSE [raised |-> None, info |-> <<>>]

(***************************************************************************)
(* Step 6 of import_and_parse: rows to Transactions                        *)
(***************************************************************************)

\* The Transactions of a normalised row: <<>> when the row is skipped or raises
\* (a missing column is a KeyError, a zero amount fails Transaction's validator),
\* else the one Transaction.
\* Transaction's validator of amount: TRUE when it returns the value, FALSE when
\* it raises ValueError.  The one that accepts every amount comes first.
amount_must_not_be_zero_accepting(v) == TRUE

amount_must_not_be_zero(v) == v \notin ZeroDecimals

row_transaction(columns, row) ==
  IF "date" \notin Range(columns) THEN <<>>
  ELSE IF row["date"] = NaN \/ strip(row["date"]) = "" THEN <<>>
  ELSE IF row["date"] \notin DateStrings THEN <<>>
  ELSE IF "amount" \notin Range(columns) THEN <<>>
  ELSE IF row["amount"] = NaN THEN <<>>
  ELSE IF replace_comma(row["amount"]) \notin DecimalStrings THEN <<>>
  ELSE IF "description" \notin Range(columns) THEN <<>>
  ELSE IF ~amount_must_not_be_zero(replace_comma(row["amount"])) THEN <<>>
  ELSE
    LET text == IF row["description"] = NaN THEN "" ELSE row["description"]
        description == IF strip(text) = "" \/ lower(text) = "nan"
                         THEN "Transaktion" ELSE text
        cell == IF "currency" \in Range(columns) THEN row["currency"] ELSE "SEK"
        currency == IF cell = NaN \/ strip(cell) = "" THEN "SEK" ELSE cell
    IN << [date |-> to_date(row["date"]),
           amount |-> replace_comma(row["amount"]),
           description |-> strip(description),
           category |-> None,
           currency |-> currency,
           metadata |-> {}] >>

RECURSIVE parse_rows(_, _)
parse_rows(columns, rows) ==
  IF rows = <<>> THEN <<>>
  ELSE row_transaction(columns, Head(rows)) \o parse_rows(columns, Tail(rows))

(***************************************************************************)
(* The file system.  A path is [dir, base]; a basename is                  *)
(*   [name, number_end, sep, stamp, stamp_kind, ext]                       *)
(* and reads name sep stamp ext.  number_end is the part of name up to the *)
(* end of the first account number (dddd dd ddddd) in it, "" without one;  *)
(* stamp_kind tells what the text after the separator is: "iso"            *)
(* (YYYY-MM-DD...), "compact" (8 digits...), "text" or "none".             *)
(***************************************************************************)

filename_text(base) == base.name \o base.sep \o base.stamp \o base.ext

\* Path(filepath).name
path_name(path) == filename_text(path.base)

\* Path(path).suffix.lower()
path_suffix(path) == path.base.ext

Base(name, number_end, sep, stamp, stamp_kind, ext) ==
  [name |-> name, number_end |-> number_end, sep |-> sep, stamp |-> stamp,
   stamp_kind |-> stamp_kind, ext |-> ext]

BaseJan15 == Base("PERSONKONTO 1234", "", " - ", "2025-01-15 09.39.41", "iso", ".csv")
BaseJan17 == Base("PERSONKONTO 1234", "", " - ", "2025-01-17 10.00.00", "iso", ".csv")
BaseCompact == Base("PERSONKONTO 1234", "", "_", "20250120", "compact", ".csv")
BaseKopia == Base("kopia", "", "", "", "none", ".csv")
BaseSpar == Base("SPARKONTO 1709 20 72840 export", "SPARKONTO 1709 20 72840", "", "", "none", ".json")
BaseNoRows == Base("PERSONKONTO 1234", "", " - ", "2025-03-01", "iso", ".csv")
BaseMissing == Base("PERSONKONTO 1234", "", " - ", "2025-04-01", "iso", ".csv")
BaseText == Base("PERSONKONTO 1234", "", " - ", "2025-04-02", "iso", ".txt")
BaseGarbage == Base("PERSONKONTO 1234", "", " - ", "2025-04-03", "iso", ".csv")
BaseBadDate == Base("PERSONKONTO 1234", "", " - ", "2025-04-04", "iso", ".csv")

P1 == [dir |-> "/in/", base |-> BaseJan15]
P2 == [dir |-> "/in/", base |-> BaseJan17]
P3 == [dir |-> "/in/", base |-> BaseCompact]
P4 == [dir |-> "/in/", base |-> BaseKopia]
P5 == [dir |-> "/other/", base |-> BaseJan15]
P6 == [dir |-> "/in/", base |-> BaseSpar]
P7 == [dir |-> "/in/", base |-> BaseNoRows]
P8 == [dir |-> "/in/", base |-> BaseMissing]
P9 == [dir |-> "/in/", base |-> BaseText]
P10 == [dir |-> "/in/", base |-> BaseGarbage]
P11 == [dir |-> "/in/", base |-> BaseBadDate]

Paths == {P1, P2, P3, P4, P5, P6, P7, P8, P9, P10, P11}

NoPath == [dir |-> "", base |-> Base("", "", "", "", "none", "")]

\* The DataFrame with these columns and these rows of cells
MkData(columns, cells) ==
  [columns |-> columns,
   rows |-> [i \in 1..Len(cells) |->
               [c \in Range(columns) |->
                  cells[i][CHOOSE k \in 1..Len(columns) : columns[k] = c]]]]

\* Nordea, comma separated: two purchases
DataJan15 ==
  MkData(<<"Bokföringsdatum", "Valutadatum", "Belopp", "Rubrik", "Valuta">>,
         << <<"2025-01-15", "2025-01-15", "-350.5", "Matinköp", "SEK">>,
            <<"2025-01-16", "2025-01-16", "-120.0", "Bensin", "SEK">> >>)

\* Nordea with a balance column: one purchase of DataJan15 again and a new one
DataJan17 ==
  MkData(<<"Bokföringsdatum", "Belopp", "Namn", "Rubrik", "Saldo", "Valuta">>,
         << <<"2025-01-16", "-120.0", NaN, " Bensin ", "4995,52", "SEK">>,
            <<"2025-01-17", "-75.0", NaN, "Medicin", "4920.52", "SEK">> >>)

\* Nordea: a salary, and a line of amount zero
DataSalary ==
  MkData(<<"Bokföringsdatum", "Belopp", "Avsändare", "Mottagare", "Valuta">>,
         << <<"2025-01-25", "28000.0", "Arbetsgivare AB", "Robin", NaN>>,
            <<"2025-01-25", "0.0", "Arbetsgivare AB", "Robin", NaN>> >>)

\* Swedbank, as JSON: the same line item twice, then another
DataSpar ==
  MkData(<<"Datum", "Belopp", "Beskrivning">>,
         << <<"2025-01-15", "-42.0", "Kaffe">>,
            <<"2025-01-15", "-42.0", "Kaffe">>,
            <<"2025-01-16", "-500,00", NaN>> >>)

\* Nordea: no row converts (no date, a zero amount, a bad date, a text amount)
DataNoRows ==
  MkData(<<"Bokföringsdatum", "Belopp", "Rubrik">>,
         << <<NaN, "-75.0", "Medicin">>,
            <<"2025-01-16", "0.00", "Noll">>,
            <<"igår", "-75.0", "Medicin">>,
            <<"2025-01-17", "sjuttiofem", "Medicin">> >>)

\* Nordea: the last booking date is no date
DataBadDate ==
  MkData(<<"Bokföringsdag", "Belopp", "Rubrik", "Saldo">>,
         << <<"2025/10/21", "-500,00", "Swish", "4995,52">>,
            <<"Summa", NaN, NaN, NaN>> >>)

one_column == [error |-> FALSE, data |-> [columns |-> <<"line">>, rows |-> <<>>]]
read_ok(data) == [error |-> FALSE, data |-> data]
read_error == [error |-> TRUE, data |-> NoData]

\* read_csv on a comma separated file: ';' and tab give one column
csv_comma(data) ==
  <<one_column, one_column, read_ok(data), read_ok(data), one_column, one_column>>

\* read_csv on a file no attempt reads
csv_garbage ==
  <<one_column, one_column, one_column, read_error, read_error, one_column>>

File(exists, bytes, csv, table) ==
  [exists |-> exists, bytes |-> bytes, csv |-> csv, table |-> table]

FileAt(path) ==
  CASE path = P1 -> File(TRUE, "jan15", csv_comma(DataJan15), read_error)
    [] path = P2 -> File(TRUE, "jan17", csv_comma(DataJan17), read_error)
    [] path = P3 -> File(TRUE, "jan15", csv_comma(DataJan15), read_error)
    [] path = P4 -> File(TRUE, "jan15", csv_comma(DataJan15), read_error)
    [] path = P5 -> File(TRUE, "salary", csv_comma(DataSalary), read_error)
    [] path = P6 -> File(TRUE, "spar", csv_garbage, read_ok(DataSpar))
    [] path = P7 -> File(TRUE, "norows", csv_comma(DataNoRows), read_error)
    [] path = P8 -> File(FALSE, "", csv_garbage, read_error)
    [] path = P9 -> File(TRUE, "jan15", csv_comma(DataJan15), read_error)
    [] path = P10 -> File(TRUE, "garbage", csv_garbage, read_error)
    [] path = P11 -> File(TRUE, "baddate", csv_comma(DataBadDate), read_error)

(***************************************************************************)
(* load_file (import_bank_data.py).  A file of the file system is          *)
(*   [exists, bytes, csv, table]                                           *)
(* bytes is its content; csv is what pandas.read_csv gives for each of the *)
(* six (separator, encoding) attempts, table what read_excel / read_json   *)
(* gives; each is [error |-> BOOLEAN, data |-> DataFrame].                 *)
(***************************************************************************)

\* The attempts of the separator / encoding cascade, in order.
attempts ==
  << [sep |-> ";", encoding |-> "utf-8-sig"],
     [sep |-> "\t", encoding |-> "utf-8-sig"],
     [sep |-> ",", encoding |-> "utf-8-sig"],
     [sep |-> "auto", encoding |-> "utf-8-sig"],
     [sep |-> ";", encoding |-> "windows-1252"],
     [sep |-> "\t", encoding |-> "windows-1252"] >>

\* The attempts that do not raise and give more than one column.
accepted_attempts(file) ==
  {i \in 1..Len(attempts) :
     ~file.csv[i].error /\ Len(file.csv[i].data.columns) > 1}

load_file(path) ==
  LET file == FileAt(path) IN
  IF ~file.exists
    THEN [raised |-> "FileNotFoundError", data |-> NoData]
  ELSE IF path_suffix(path) = ".csv"
    THEN IF accepted_attempts(file) # {}
           THEN [raised |-> None,
                 data |-> file.csv[CHOOSE i \in accepted_attempts(file) :
                             \A j \in accepted_attempts(file) : i <= j].data]
           ELSE [raised |-> "ValueError", data |-> NoData]
  ELSE IF path_suffix(path) \in {".xlsx", ".xls", ".json"}
    THEN IF file.table.error
           THEN [raised |-> "ValueError", data |-> NoData]
           ELSE [raised |-> None, data |-> file.table.data]
  ELSE [raised |-> "ValueError", data |-> NoData]

\* The files do not change, so each step of import_and_parse on a path is a
\* table over the paths: step 3 (load_file),
Loaded == [path \in Paths |-> load_file(path)]

\* step 4 (detect_format),
Detected == [path \in Paths |-> detect_format(Loaded[path].data)]

\* step 4b (extract_balance_info on the raw data),
Balance == [path \in Paths |-> extract_balance_info(Loaded[path].data, Detected[path])]

\* step 5 (normalize_columns, dropna(how='all')),
Normalized ==
  [path \in Paths |-> dropna_all(normalize_columns(Loaded[path].data, Detected[path]))]

\* and step 6 (the rows converted to Transactions).
Converted ==
  [path \in Paths |-> parse_rows(Normalized[path].columns, Normalized[path].rows)]

\* Steps 3 to 6 of import_and_parse: what the call raises, or the transactions
\* and the balance information it goes on with
parse_file(path) ==
  IF Loaded[path].raised # None
    THEN [raised |-> Loaded[path].raised, transactions |-> <<>>, balance_info |-> <<>>]
  ELSE IF Balance[path].raised # None
    THEN [raised |-> Balance[path].raised, transactions |-> <<>>, balance_info |-> <<>>]
  ELSE [raised |-> None,
        transactions |-> Converted[path],
        balance_info |-> Balance[path].info]

Parsed == [path \in Paths |-> parse_file(path)]

(***************************************************************************)
(* extract_account_from_filename                                           *)
(***************************************************************************)

DashSeparators == {" - ", "-", " -", "- "}
UnderscoreSeparators == {"_", " _ ", " _", "_ "}

\* The file name without its extension, whatever its form
extract_account_from_filename_stem(path) ==
  path.base.name \o path.base.sep \o path.base.stamp

extract_account_from_filename(path) ==
  LET base == path.base
      name_without_ext == base.name \o base.sep \o base.stamp
  IN \* r'^(.+?)\s*-\s*\d{4}[-/]\d{2}[-/]\d{2}'
     IF base.stamp_kind = "iso" /\ base.sep \in DashSeparators /\ base.name # ""
       THEN base.name
     \* r'\d{4}[\s\-]\d{2}[\s\-]\d{5}'
     ELSE IF base.number_end # "" THEN base.number_end
     \* the two re.sub of a trailing date
     ELSE IF /\ base.stamp_kind \in {"iso", "compact"}
             /\ base.sep \in DashSeparators \cup UnderscoreSeparators
       THEN IF base.name # "" THEN base.name ELSE name_without_ext
     ELSE name_without_ext

\* calculate_file_checksum of an existing file
calculate_file_checksum(path) == <<"md5", FileAt(path).bytes>>

(***************************************************************************)
(* The account registry (account_manager.py).  The document is             *)
(*   [exists, readable, accounts]                                          *)
(* accounts maps each account name to its Account.  An optional datetime   *)
(* is <<>> (None) or <<tick>>.                                             *)
(***************************************************************************)

EmptyAccounts == [name \in {} |-> None]

\* The assignment that leaves the one account in the dict
Put_alone(accounts, name, account) == [n \in {name} |-> account]

Put(accounts, name, account) ==
  [n \in DOMAIN accounts \cup {name} |-> IF n = name THEN account ELSE accounts[n]]

Remove(accounts, name) == [n \in DOMAIN accounts \ {name} |-> accounts[n]]

\* Account(account_name=..., account_number=None, imported_files=[], transaction_hashes=set())
NewAccount(account_name) ==
  [account_name |-> account_name,
   account_number |-> None,
   imported_files |-> <<>>,
   last_import_date |-> <<>>,
   transaction_hashes |-> {},
   current_balance |-> None,
   balance_date |-> None,
   balance_currency |-> "SEK"]

\* datetime.isoformat()
isoformat(tick) == <<"iso", tick>>

\* Scalars of the YAML document: null, and a string (yaml.dump quotes a string
\* that would read back as a number or a timestamp, so a string is read back as
\* the same string).
yaml_null == <<"null">>
yaml_str(text) == <<"str", text>>

\* datetime.fromisoformat / date.fromisoformat
fromisoformat(text) == text[2]

\* str(Decimal): a Decimal is modelled by its exact string
decimal_str(decimal) == decimal

\* str(float(Decimal)), the shortest repr of the nearest binary float
float_str(decimal) ==
  CASE decimal = "-500.00" -> "-500.0"
    [] decimal = "1250.00" -> "1250.0"
    [] decimal = "0" -> "0.0"
    [] decimal = "0.00" -> "0.0"
    [] OTHER -> decimal

\* save_accounts with current_balance written as a YAML float
account_dict_float(account) ==
  [account EXCEPT
     !.last_import_date = IF @ # <<>> THEN yaml_str(isoformat(@[1])) ELSE yaml_null,
     !.current_balance = IF @ # None THEN <<"float", float_str(@)>> ELSE yaml_null,
     !.balance_date = IF @ # None THEN yaml_str(@) ELSE yaml_null]

\* save_accounts, one account: model_dump() and the conversions for YAML.
\* list(transaction_hashes) has no order of its own and load_accounts takes
\* set() of it: the list is modelled by the set of its elements.
account_dict(account) ==
  [account EXCEPT
     !.last_import_date = IF @ # <<>> THEN yaml_str(isoformat(@[1])) ELSE yaml_null,
     !.current_balance = IF @ # None THEN yaml_str(decimal_str(@)) ELSE yaml_null,
     !.balance_date = IF @ # None THEN yaml_str(@) ELSE yaml_null]

\* load_accounts, one account: the conversions and Account(**account_data)
account_from_data(account_data) ==
  [account_data EXCEPT
     !.last_import_date = IF @ # yaml_null THEN <<fromisoformat(@[2])>> ELSE <<>>,
     !.current_balance = IF @ # yaml_null THEN @[2] ELSE None,
     !.balance_date = IF @ # yaml_null THEN @[2] ELSE None]

\* An unreadable document is reported and read as no accounts.
load_accounts(reg) ==
  IF ~reg.exists THEN EmptyAccounts
  ELSE IF ~reg.readable THEN EmptyAccounts
  ELSE [name \in DOMAIN reg.accounts |-> account_from_data(reg.accounts[name])]

save_accounts(accounts) ==
  [exists |-> TRUE, readable |-> TRUE,
   accounts |-> [name \in DOMAIN accounts |-> account_dict(accounts[name])]]

\* [registry, account]
get_or_create_account(reg, account_name) ==
  LET accounts == load_accounts(reg) IN
  IF account_name \in DOMAIN accounts
    THEN [registry |-> reg, account |-> accounts[account_name]]
    ELSE [registry |-> save_accounts(Put(accounts, account_name, NewAccount(account_name))),
          account |-> NewAccount(account_name)]

\* accounts[account_name] after "if account_name not in accounts:
\*   accounts[account_name] = get_or_create_account(account_name)"
account_of(reg, account_name) ==
  IF account_name \in DOMAIN load_accounts(reg)
    THEN load_accounts(reg)[account_name]
    ELSE get_or_create_account(reg, account_name).account

\* is_file_imported without its two tests: no file counts as imported
is_file_imported_never(reg, account_name, path) == FALSE

\* is_file_imported by the filename test alone
is_file_imported_by_name(reg, account_name, path) ==
  LET accounts == load_accounts(reg) IN
  IF account_name \notin DOMAIN accounts THEN FALSE
  ELSE LET files == accounts[account_name].imported_files IN
       \E i \in 1..Len(files) : files[i].filename = path_name(path)

is_file_imported(reg, account_name, path) ==
  LET accounts == load_accounts(reg) IN
  IF account_name \notin DOMAIN accounts THEN FALSE
  ELSE LET files == accounts[account_name].imported_files IN
       \/ \E i \in 1..Len(files) : files[i].filename = path_name(path)
       \* a checksum that cannot be computed is passed over
       \/ /\ FileAt(path).exists
          /\ \E i \in 1..Len(files) : files[i].checksum = calculate_file_checksum(path)

\* add_imported_file keeping the new record only
add_imported_file_replacing(reg, account_name, path, tick) ==
  LET accounts == load_accounts(reg)
      account == account_of(reg, account_name)
      file_info == [filename |-> path_name(path),
                    checksum |-> IF FileAt(path).exists
                                   THEN calculate_file_checksum(path)
                                   ELSE <<"unknown", "">>,
                    import_date |-> isoformat(tick)]
  IN save_accounts(Put(accounts, account_name,
       [account EXCEPT !.imported_files = <<file_info>>,
                       !.last_import_date = <<tick>>]))

add_imported_file(reg, account_name, path, tick) ==
  LET accounts == load_accounts(reg)
      account == account_of(reg, account_name)
      file_info == [filename |-> path_name(path),
                    checksum |-> IF FileAt(path).exists
                                   THEN calculate_file_checksum(path)
                                   ELSE <<"unknown", "">>,
                    import_date |-> isoformat(tick)]
  IN save_accounts(Put(accounts, account_name,
       [account EXCEPT !.imported_files = Append(@, file_info),
                       !.last_import_date = <<tick>>]))

\* is_transaction_duplicate without the look-up in transaction_hashes
is_transaction_duplicate_never(reg, account_name, transaction) == FALSE

is_transaction_duplicate(reg, account_name, transaction) ==
  LET accounts == load_accounts(reg) IN
  IF account_name \notin DOMAIN accounts THEN FALSE
  ELSE calculate_transaction_hash(transaction) \in accounts[account_name].transaction_hashes

\* [new, duplicates]
filter_duplicate_transactions(reg, account_name, transactions) ==
  [new |-> SelectSeq(transactions,
             LAMBDA t : ~is_transaction_duplicate(reg, account_name, t)),
   duplicates |-> SelectSeq(transactions,
             LAMBDA t : is_transaction_duplicate(reg, account_name, t))]

\* register_transactions assigning the new hashes instead of adding them
register_transactions_replacing(reg, account_name, transactions) ==
  LET accounts == load_accounts(reg)
      account == account_of(reg, account_name)
  IN save_accounts(Put(accounts, account_name,
       [account EXCEPT !.transaction_hashes =
          {calculate_transaction_hash(transactions[i]) : i \in 1..Len(transactions)}]))

register_transactions(reg, account_name, transactions) ==
  LET accounts == load_accounts(reg)
      account == account_of(reg, account_name)
  IN save_accounts(Put(accounts, account_name,
       [account EXCEPT !.transaction_hashes =
          @ \cup {calculate_transaction_hash(transactions[i]) : i \in 1..Len(transactions)}]))

update_account_balance(reg, account_name, balance, balance_date, currency) ==
  LET accounts == load_accounts(reg)
      account == account_of(reg, account_name)
  IN save_accounts(Put(accounts, account_name,
       [account EXCEPT !.current_balance = balance,
                       !.balance_date = balance_date,
                       !.balance_currency = currency]))

\* delete_imported_file retracting the account's transaction hashes with the record
delete_imported_file_retracting(reg, account_name, filename) ==
  LET accounts == load_accounts(reg) IN
  IF account_name \notin DOMAIN accounts THEN [registry |-> reg, ret |-> FALSE]
  ELSE LET account == accounts[account_name]
           kept == SelectSeq(account.imported_files, LAMBDA f : f.filename # filename)
       IN IF Len(kept) < Len(account.imported_files)
            THEN [registry |-> save_accounts(Put(accounts, account_name,
                                 [account EXCEPT !.imported_files = kept,
                                                 !.transaction_hashes = {}])),
                  ret |-> TRUE]
            ELSE [registry |-> reg, ret |-> FALSE]

\* delete_imported_file without the comparison of the two lengths: True for every
\* account of the registry
delete_imported_file_unconditional(reg, account_name, filename) ==
  LET accounts == load_accounts(reg) IN
  IF account_name \notin DOMAIN accounts THEN [registry |-> reg, ret |-> FALSE]
  ELSE LET account == accounts[account_name]
           kept == SelectSeq(account.imported_files, LAMBDA f : f.filename # filename)
       IN [registry |-> save_accounts(Put(accounts, account_name,
                          [account EXCEPT !.imported_files = kept])),
           ret |-> TRUE]

\* [registry, ret]
delete_imported_file(reg, account_name, filename) ==
  LET accounts == load_accounts(reg) IN
  IF account_name \notin DOMAIN accounts THEN [registry |-> reg, ret |-> FALSE]
  ELSE LET account == accounts[account_name]
           kept == SelectSeq(account.imported_files, LAMBDA f : f.filename # filename)
       IN IF Len(kept) < Len(account.imported_files)
            THEN [registry |-> save_accounts(Put(accounts, account_name,
                                 [account EXCEPT !.imported_files = kept])),
                  ret |-> TRUE]
            ELSE [registry |-> reg, ret |-> FALSE]

\* delete_account saving no account at all
delete_account_clearing(reg, account_name) ==
  LET accounts == load_accounts(reg) IN
  IF account_name \in DOMAIN accounts
    THEN [registry |-> save_accounts(EmptyAccounts), ret |-> TRUE]
    ELSE [registry |-> reg, ret |-> FALSE]

\* [registry, ret]
delete_account(reg, account_name) ==
  LET accounts == load_accounts(reg) IN
  IF account_name \in DOMAIN accounts
    THEN [registry |-> save_accounts(Remove(accounts, account_name)), ret |-> TRUE]
    ELSE [registry |-> reg, ret |-> FALSE]

clear_all_accounts == save_accounts(EmptyAccounts)

(***************************************************************************)
(* import_and_parse: [registry, raised, blocked, ret, duplicates]          *)
(* blocked: the file-level pre-check of step 2 returned [] ; duplicates:   *)
(* the transactions step 7 reported as duplicates.                         *)
(***************************************************************************)

\* Step 7 with check_duplicates: register, update the balance, record the file
\* The commit recording the file only when it brought new transactions
commit_only_new(reg, account_name, path, new_transactions, balance_info, tick) ==
  IF new_transactions = <<>> THEN reg
  ELSE add_imported_file(
         IF balance_info # <<>>
           THEN update_account_balance(
                  register_transactions(reg, account_name, new_transactions),
                  account_name, balance_info[1], balance_info[2], balance_info[3])
           ELSE register_transactions(reg, account_name, new_transactions),
         account_name, path, tick)

commit(reg, account_name, path, new_transactions, balance_info, tick) ==
  LET registered == IF new_transactions # <<>>
                      THEN register_transactions(reg, account_name, new_transactions)
                      ELSE reg
      balanced == IF balance_info # <<>>
                    THEN update_account_balance(registered, account_name,
                           balance_info[1], balance_info[2], balance_info[3])
                    ELSE registered
  IN add_imported_file(balanced, account_name, path, tick)

\* Step 7 committing whatever check_duplicates says
import_parsed_committing(reg, account_name, path, check_duplicates, tick, transactions, balance_info, split) ==
  IF check_duplicates
    THEN [registry |-> commit(reg, account_name, path, split.new, balance_info, tick),
          raised |-> None, blocked |-> FALSE, ret |-> split.new,
          duplicates |-> split.duplicates]
    ELSE [registry |-> commit(reg, account_name, path, split.new, balance_info, tick),
          raised |-> None, blocked |-> FALSE,
          ret |-> transactions, duplicates |-> <<>>]

\* Step 7: the transactions returned and, with check_duplicates, the commit
import_parsed(reg, account_name, path, check_duplicates, tick, transactions, balance_info, split) ==
  IF check_duplicates
    THEN [registry |-> commit(reg, account_name, path, split.new, balance_info, tick),
          raised |-> None, blocked |-> FALSE, ret |-> split.new,
          duplicates |-> split.duplicates]
    ELSE [registry |-> reg, raised |-> None, blocked |-> FALSE,
          ret |-> transactions, duplicates |-> <<>>]

\* Steps 3 to 7, parsed being what steps 3 to 6 give for the file
import_loaded(reg, account_name, path, check_duplicates, tick, parsed) ==
  IF parsed.raised # None
    THEN [registry |-> reg, raised |-> parsed.raised, blocked |-> FALSE,
          ret |-> <<>>, duplicates |-> <<>>]
    ELSE import_parsed(reg, account_name, path, check_duplicates, tick,
           parsed.transactions, parsed.balance_info,
           filter_duplicate_transactions(reg, account_name, parsed.transactions))

\* Steps 1 and 2 creating the account before the file is loaded
import_named_creating(reg, account_name, path, check_duplicates, tick) ==
  IF check_duplicates /\ is_file_imported(reg, account_name, path)
    THEN [registry |-> reg, raised |-> None, blocked |-> TRUE, ret |-> <<>>,
          duplicates |-> <<>>]
    ELSE import_loaded(IF check_duplicates
                         THEN get_or_create_account(reg, account_name).registry
                         ELSE reg,
                       account_name, path, check_duplicates, tick, Parsed[path])

\* Steps 1 and 2, then the rest
import_named(reg, account_name, path, check_duplicates, tick) ==
  IF check_duplicates /\ is_file_imported(reg, account_name, path)
    THEN [registry |-> reg, raised |-> None, blocked |-> TRUE, ret |-> <<>>,
          duplicates |-> <<>>]
    ELSE import_loaded(reg, account_name, path, check_duplicates, tick, Parsed[path])

import_and_parse(reg, path, check_duplicates, tick) ==
  import_named(reg, extract_account_from_filename(path), path, check_duplicates, tick)

(***************************************************************************)
(* The calls.  last records the call just made:                            *)
(*   op, its arguments (path, check_duplicates, account, filename),        *)
(*   raised (the exception, None without one), blocked, ret (the list      *)
(*   import_and_parse returned), duplicates, ok (the bool a delete         *)
(*   returned), loaded (the dict load_accounts returned), and after_import:*)
(*   for a delete_imported_file that returned True right after the         *)
(*   dedup-enabled import that recorded this file, the path of that        *)
(*   import; for a dedup-enabled import of that path right after such a    *)
(*   delete, the path again; for a delete_account that returned True right *)
(*   after a dedup-enabled import recorded a file in that account, the     *)
(*   path of that import; NoPath otherwise.                                *)
(***************************************************************************)

Call(op, path, check_duplicates, account, filename, raised, blocked, ret, duplicates, ok, loaded, after_import) ==
  [op |-> op, path |-> path, check_duplicates |-> check_duplicates,
   account |-> account, filename |-> filename, raised |-> raised,
   blocked |-> blocked, ret |-> ret, duplicates |-> duplicates, ok |-> ok,
   loaded |-> loaded, after_import |-> after_import]

AccountNames == {extract_account_from_filename(path) : path \in Paths}

\* The account names and file names the delete calls are tried with
AccountArgs ==
  {extract_account_from_filename(P1), extract_account_from_filename(P6),
   "NONEXISTENT_ACCOUNT"}
FilenameArgs == {path_name(P1), path_name(P2), path_name(P6), "nonexistent.csv"}

hashes_of(transactions) ==
  {calculate_transaction_hash(transactions[i]) : i \in 1..Len(transactions)}

\* A dedup-enabled call that got past the pre-check and returned
committed(result, check_duplicates) ==
  check_duplicates /\ ~result.blocked /\ result.raised = None

Init ==
  /\ registry = [exists |-> FALSE, readable |-> TRUE, accounts |-> EmptyAccounts]
  /\ now = 1
  /\ last = Call("start", NoPath, FALSE, "", "", None, FALSE, <<>>, <<>>, FALSE,
                 EmptyAccounts, NoPath)
  /\ returned = {}
  /\ procs = <<>>

\* The call import_and_parse(path, check_duplicates) with its outcome result
Returns(path, check_duplicates, account_name, result) ==
  /\ committed(result, check_duplicates) => now <= MaxClock
  /\ registry' = result.registry
  /\ now' = IF committed(result, check_duplicates) THEN now + 1 ELSE now
  /\ last' = Call("import_and_parse", path, check_duplicates, account_name,
                  path_name(path), result.raised, result.blocked, result.ret,
                  result.duplicates, FALSE, EmptyAccounts,
                  IF /\ check_duplicates
                     /\ last.op = "delete_imported_file"
                     /\ last.after_import = path
                    THEN path ELSE NoPath)
  /\ returned' = IF check_duplicates
                   THEN returned \cup {<<account_name, h>> : h \in hashes_of(result.ret)}
                   ELSE returned
  /\ UNCHANGED procs

Import(path, check_duplicates) ==
  Returns(path, check_duplicates, extract_account_from_filename(path),
          import_and_parse(registry, path, check_duplicates, now))

DeleteImportedFile(account_name, filename) ==
  LET result == delete_imported_file(registry, account_name, filename)
      follows == /\ result.ret
                 /\ last.op = "import_and_parse"
                 /\ last.check_duplicates /\ ~last.blocked /\ last.raised = None
                 /\ last.account = account_name /\ last.filename = filename
  IN /\ registry' = result.registry
     /\ last' = Call("delete_imported_file", NoPath, FALSE, account_name, filename,
                     None, FALSE, <<>>, <<>>, result.ret, EmptyAccounts,
                     IF follows THEN last.path ELSE NoPath)
     /\ UNCHANGED <<now, returned, procs>>

DeleteAccount(account_name) ==
  LET result == delete_account(registry, account_name)
      follows == /\ result.ret
                 /\ last.op = "import_and_parse"
                 /\ last.check_duplicates /\ ~last.blocked /\ last.raised = None
                 /\ last.account = account_name
  IN
  /\ registry' = result.registry
  /\ last' = Call("delete_account", NoPath, FALSE, account_name, "", None, FALSE,
                  <<>>, <<>>, result.ret, EmptyAccounts,
                  IF follows THEN last.path ELSE NoPath)
  /\ returned' = {r \in returned : r[1] # account_name}
  /\ UNCHANGED <<now, procs>>

ClearAllAccounts ==
  /\ registry' = clear_all_accounts
  /\ last' = Call("clear_all_accounts", NoPath, FALSE, "", "", None, FALSE, <<>>,
                  <<>>, FALSE, EmptyAccounts, NoPath)
  /\ returned' = {}
  /\ UNCHANGED <<now, procs>>

LoadAccounts ==
  /\ last' = Call("load_accounts", NoPath, FALSE, "", "", None, FALSE, <<>>, <<>>,
                  FALSE, load_accounts(registry), NoPath)
  /\ UNCHANGED <<registry, now, returned, procs>>

\* The document is damaged from outside (a hand edit, a torn write): it is there
\* but yaml.safe_load or Account(**account_data) raises on it.
DamageRegistry ==
  /\ registry.exists /\ registry.readable
  /\ registry' = [registry EXCEPT !.readable = FALSE]
  /\ last' = Call("damage", NoPath, FALSE, "", "", None, FALSE, <<>>, <<>>, FALSE,
                  EmptyAccounts, NoPath)
  /\ UNCHANGED <<now, returned, procs>>

Next ==
  \/ \E path \in Paths, check_duplicates \in BOOLEAN : Import(path, check_duplicates)
  \/ \E account_name \in AccountArgs, filename \in FilenameArgs :
       DeleteImportedFile(account_name, filename)
  \/ \E account_name \in AccountArgs : DeleteAccount(account_name)
  \/ ClearAllAccounts
  \/ LoadAccounts

Spec == Init /\ [][Next]_vars

\* The same calls, on a registry document that may get damaged
NextDamaged == Next \/ DamageRegistry

SpecDamaged == Init /\ [][NextDamaged]_vars

(***************************************************************************)
(* The same calls when a save_accounts() may fail (disk full, no           *)
(* permission): open(ACCOUNTS_DB_PATH, 'w') raises OSError and the         *)
(* document stays as the last save that went through left it.              *)
(***************************************************************************)

\* The documents that the save_accounts() calls of step 7 write, in order: the
\* one of get_or_create_account for an account that is not there, then those of
\* register_transactions (with new transactions), of update_account_balance
\* (with a balance) and of add_imported_file.
commit_saves(reg, account_name, path, new_transactions, balance_info, tick) ==
  LET created == get_or_create_account(reg, account_name).registry
      registered == IF new_transactions # <<>>
                      THEN register_transactions(created, account_name, new_transactions)
                      ELSE created
      balanced == IF balance_info # <<>>
                    THEN update_account_balance(registered, account_name,
                           balance_info[1], balance_info[2], balance_info[3])
                    ELSE registered
  IN (IF account_name \in DOMAIN load_accounts(reg) THEN <<>> ELSE <<created>>)
       \o (IF new_transactions # <<>> THEN <<registered>> ELSE <<>>)
       \o (IF balance_info # <<>> THEN <<balanced>> ELSE <<>>)
       \o <<add_imported_file(balanced, account_name, path, tick)>>

\* import_and_parse(path, True) whose failing-th save_accounts() raises: saves
\* are the documents its saves would write, split what step 7 found new.  The
\* call counts as a reading of the clock, as a commit does, which bounds the
\* failures of a run.
ImportSaveFails(path, account_name, split, saves, failing) ==
  /\ ~is_file_imported(registry, account_name, path)
  /\ failing <= Len(saves)
  /\ registry' = IF failing = 1 THEN registry ELSE saves[failing - 1]
  /\ last' = Call("import_and_parse", path, TRUE, account_name, path_name(path),
                  "OSError", FALSE, <<>>, split.duplicates, FALSE, EmptyAccounts,
                  NoPath)
  /\ now' = now + 1
  /\ UNCHANGED <<returned, procs>>

ImportFailing(path, account_name, parsed, failing) ==
  /\ parsed.raised = None
  /\ now <= MaxClock
  /\ ImportSaveFails(path, account_name,
       filter_duplicate_transactions(registry, account_name, parsed.transactions),
       commit_saves(registry, account_name, path,
         filter_duplicate_transactions(registry, account_name, parsed.transactions).new,
         parsed.balance_info, now),
       failing)

NextFailing ==
  \/ Next
  \/ \E path \in Paths, failing \in 1..4 :
       ImportFailing(path, extract_account_from_filename(path), Parsed[path], failing)

SpecFailing == Init /\ [][NextFailing]_vars

(***************************************************************************)
(* save_accounts and load_accounts on their own: any dict of Accounts is   *)
(* saved, and the document is loaded.  last.loaded is the dict passed to   *)
(* save_accounts, or the dict load_accounts returned.                      *)
(***************************************************************************)

SampleFile(base, bytes, tick) ==
  [filename |-> filename_text(base), checksum |-> <<"md5", bytes>>,
   import_date |-> isoformat(tick)]

SampleFileLists ==
  {<<>>, <<SampleFile(BaseJan17, "jan17", 2), SampleFile(BaseJan15, "jan15", 1)>>}

SampleHashSets ==
  {{}, hashes_of(Parsed[P1].transactions) \cup hashes_of(Parsed[P2].transactions)}

SampleBalances == {None, "4920.52", "1250.00", "0"}

SampleAccounts(account_name) ==
  {[account_name |-> account_name,
    account_number |-> account_number,
    imported_files |-> imported_files,
    last_import_date |-> last_import_date,
    transaction_hashes |-> transaction_hashes,
    current_balance |-> current_balance,
    balance_date |-> balance_date,
    balance_currency |-> "SEK"] :
     account_number \in {None, "1234567890"},
     imported_files \in SampleFileLists,
     last_import_date \in {<<>>, <<2>>},
     transaction_hashes \in SampleHashSets,
     current_balance \in SampleBalances,
     balance_date \in {None, "2025-01-17"}}

\* The dicts passed to save_accounts: none, one or two accounts
SampleAccountMaps ==
  {EmptyAccounts}
    \cup {Put(EmptyAccounts, "TEST_KONTO", account) : account \in SampleAccounts("TEST_KONTO")}
    \cup {Put(Put(EmptyAccounts, "kopia", NewAccount("kopia")), "TEST_KONTO", account) :
            account \in SampleAccounts("TEST_KONTO")}

SaveAccounts(accounts) ==
  /\ registry' = save_accounts(accounts)
  /\ last' = Call("save_accounts", NoPath, FALSE, "", "", None, FALSE, <<>>, <<>>,
                  FALSE, accounts, NoPath)
  /\ UNCHANGED <<now, returned, procs>>

NextPersistence ==
  \/ \E accounts \in SampleAccountMaps : SaveAccounts(accounts)
  \/ LoadAccounts

SpecPersistence == Init /\ [][NextPersistence]_vars

(***************************************************************************)
(* calculate_transaction_hash on its own: two Transactions are built       *)
(* (last.ret), then hashed (last.duplicates holds the two hashes).         *)
(***************************************************************************)

SampleTransactions ==
  {[date |-> date, amount |-> amount, description |-> description,
    category |-> extra[1], currency |-> currency, metadata |-> extra[2]] :
     date \in {"2025-01-15", "2025-01-16"},
     amount \in {"-350.5", "-350.50", "-350.51"},
     description \in {"ICA", "ICA ", "ICA|SEK"},
     currency \in {"SEK", "EUR", "SEK|EUR"},
     extra \in {<<None, {}>>, <<"Mat", {<<"butik", "ICA Maxi">>}>>}}

InitHash ==
  /\ registry = [exists |-> FALSE, readable |-> TRUE, accounts |-> EmptyAccounts]
  /\ now = 1
  /\ returned = {}
  /\ procs = <<>>
  /\ \E t1 \in SampleTransactions, t2 \in SampleTransactions :
       last = Call("Transaction", NoPath, FALSE, "", "", None, FALSE, <<t1, t2>>,
                   <<>>, FALSE, EmptyAccounts, NoPath)

CalculateTransactionHash ==
  /\ last.op = "Transaction"
  /\ last' = [last EXCEPT !.op = "calculate_transaction_hash",
                          !.duplicates = <<calculate_transaction_hash(last.ret[1]),
                                           calculate_transaction_hash(last.ret[2])>>]
  /\ UNCHANGED <<registry, now, returned, procs>>

NextHash == CalculateTransactionHash

SpecHash == InitHash /\ [][NextHash]_vars

(***************************************************************************)
(* detect_format as a function of a DataFrame: the reference layouts of    *)
(* the banks, every column name written as in the export, in upper case or *)
(* in lower case, with no row or with one row                              *)
(***************************************************************************)

ReferenceLayouts ==
  {<<"Swedbank", <<"Datum", "Belopp", "Beskrivning">>>>,
   <<"SEB", <<"Bokföringsdatum", "Belopp", "Saldo">>>>,
   <<"Nordea", <<"Bokföringsdag", "Belopp", "Namn", "Rubrik", "Saldo", "Valuta">>>>,
   <<"Nordea", <<"Bokföringsdatum", "Valutadatum", "Belopp", "Avsändare",
                 "Mottagare", "Rubrik", "Valuta">>>>,
   <<"Revolut", <<"Completed Date", "Description", "Amount", "Currency">>>>}

LetterCases == {"written", "upper", "lower"}

recase(name, case) ==
  CASE case = "upper" -> upper(name)
    [] case = "lower" -> lower(name)
    [] OTHER -> name

\* The DataFrame with these columns and this many rows, every cell "x"
SampleFrame(columns, nrows) ==
  [columns |-> columns,
   rows |-> [i \in 1..nrows |-> [c \in Range(columns) |-> "x"]]]

InitDetect ==
  /\ registry = [exists |-> FALSE, readable |-> TRUE, accounts |-> EmptyAccounts]
  /\ now = 1
  /\ returned = {}
  /\ procs = <<>>
  /\ \E layout \in ReferenceLayouts, nrows \in 0..1 :
       \E cases \in [1..Len(layout[2]) -> LetterCases] :
         last = Call("DataFrame", NoPath, FALSE, layout[1], "", None, FALSE, "",
                     <<>>, FALSE,
                     SampleFrame([i \in 1..Len(layout[2]) |->
                                    recase(layout[2][i], cases[i])], nrows),
                     NoPath)

\* format = detect_format(data); last.account names the bank of the layout
DetectFormat ==
  /\ last.op = "DataFrame"
  /\ last' = [last EXCEPT !.op = "detect_format", !.ret = detect_format(last.loaded)]
  /\ UNCHANGED <<registry, now, returned, procs>>

NextDetect == DetectFormat

SpecDetect == InitDetect /\ [][NextDetect]_vars

(***************************************************************************)
(* detect_format and normalize_columns (steps 4 and 5) as functions of a   *)
(* DataFrame: any MaxColumns of the column names the rules know, all       *)
(* written as in the exports, in upper case or in lower case, with no row  *)
(* or with one row                                                         *)
(***************************************************************************)

MaxColumns == 4

ColumnUniverse ==
  <<"Bokföringsdatum", "Bokföringsdag", "Valutadatum", "Datum", "Completed Date",
    "Belopp", "Amount", "Rubrik", "Namn", "Avsändare", "Mottagare", "Beskrivning",
    "Description", "Saldo", "Valuta", "Currency">>

InitColumns ==
  /\ registry = [exists |-> FALSE, readable |-> TRUE, accounts |-> EmptyAccounts]
  /\ now = 1
  /\ returned = {}
  /\ procs = <<>>
  /\ \E names \in SUBSET Range(ColumnUniverse), case \in LetterCases, nrows \in 0..1 :
       /\ Cardinality(names) <= MaxColumns
       /\ last = [op |-> "DataFrame",
                  data |-> SampleFrame(
                    [i \in 1..Cardinality(names) |->
                       recase(SelectSeq(ColumnUniverse, LAMBDA c : c \in names)[i], case)],
                    nrows),
                  format |-> "", normalized |-> NoData]

\* bank_format = detect_format(raw_data)
DetectColumns ==
  /\ last.op = "DataFrame"
  /\ last' = [last EXCEPT !.op = "detect_format", !.format = detect_format(last.data)]
  /\ UNCHANGED <<registry, now, returned, procs>>

\* normalized_data = normalize_columns(raw_data, bank_format)
NormalizeColumns ==
  /\ last.op = "detect_format"
  /\ last' = [last EXCEPT !.op = "normalize_columns",
                          !.normalized = normalize_columns(last.data, last.format)]
  /\ UNCHANGED <<registry, now, returned, procs>>

NextColumns == DetectColumns \/ NormalizeColumns

SpecColumns == InitColumns /\ [][NextColumns]_vars

(***************************************************************************)
(* Steps 4 to 6 on Nordea exports of two rows: a booking date, an amount,  *)
(* some of the four description columns, with or without the Saldo and     *)
(* Valuta columns; a description cell holds its text or is empty, a Saldo  *)
(* cell a balance, a currency code or nothing, a Valuta cell a code or     *)
(* nothing                                                                 *)
(***************************************************************************)

DescriptionColumns == <<"Rubrik", "Namn", "Avsändare", "Mottagare">>

\* The values a cell of the column takes
SampleCells(column, row) ==
  CASE column = "Bokföringsdatum" -> {IF row = 1 THEN "2025-01-15" ELSE "2025-01-16"}
    [] column = "Belopp" -> {IF row = 1 THEN "-350.5" ELSE "-120.0"}
    [] column = "Rubrik" -> {NaN, "Matinköp"}
    [] column = "Namn" -> {NaN, "ICA Maxi"}
    [] column = "Avsändare" -> {NaN, "Robin Eklund"}
    [] column = "Mottagare" -> {NaN, "Circle K"}
    [] column = "Saldo" -> {NaN, "4995,52", "SEK"}
    [] column = "Valuta" -> {NaN, "SEK"}

\* The rows over these columns, as functions from the column names
RECURSIVE SampleRows(_, _)
SampleRows(columns, row) ==
  IF columns = <<>> THEN {<<>>}
  ELSE {(Head(columns) :> v) @@ rest :
          v \in SampleCells(Head(columns), row),
          rest \in SampleRows(Tail(columns), row)}

SampleColumnSets ==
  {<<"Bokföringsdatum", "Belopp">>
     \o SelectSeq(DescriptionColumns, LAMBDA c : c \in described)
     \o SelectSeq(<<"Saldo", "Valuta">>, LAMBDA c : c \in money) :
   described \in SUBSET Range(DescriptionColumns) \ {{}},
   money \in SUBSET {"Saldo", "Valuta"}}

InitNordea ==
  /\ registry = [exists |-> FALSE, readable |-> TRUE, accounts |-> EmptyAccounts]
  /\ now = 1
  /\ returned = {}
  /\ procs = <<>>
  /\ \E columns \in SampleColumnSets :
       \E row1 \in SampleRows(columns, 1), row2 \in SampleRows(columns, 2) :
         last = [op |-> "DataFrame",
                 data |-> [columns |-> columns, rows |-> <<row1, row2>>],
                 format |-> "", normalized |-> NoData, transactions |-> <<>>]

\* steps 4 to 6 of import_and_parse on the loaded data
ParseNordea ==
  /\ last.op = "DataFrame"
  /\ last' = [last EXCEPT
                !.op = "import_and_parse",
                !.format = detect_format(last.data),
                !.normalized =
                  dropna_all(normalize_columns(last.data, detect_format(last.data))),
                !.transactions =
                  parse_rows(
                    dropna_all(normalize_columns(last.data, detect_format(last.data))).columns,
                    dropna_all(normalize_columns(last.data, detect_format(last.data))).rows)]
  /\ UNCHANGED <<registry, now, returned, procs>>

NextNordea == ParseNordea

SpecNordea == InitNordea /\ [][NextNordea]_vars

(***************************************************************************)
(* extract_account_from_filename as a function of a file name: account     *)
(* names as the banks write them, followed by a time stamp, a date, a word *)
(* or nothing, with and without a leading directory                        *)
(***************************************************************************)

\* <<name, the name up to the end of its account number>>
SampleNames ==
  {<<"PERSONKONTO 1709 20 72840", "PERSONKONTO 1709 20 72840">>,
   <<"1709 20 72840", "1709 20 72840">>,
   <<"SPARKONTO 1709 20 72840 export", "SPARKONTO 1709 20 72840">>,
   <<"SPARKONTO_NORDEA", "">>,
   <<"ISK-konto", "">>}

\* <<separator, text after it, kind of the text>>
SampleStamps ==
  {<<" - ", "2025-10-21 09.39.41", "iso">>,
   <<" - ", "2025-10-22 10.00.00", "iso">>,
   <<"-", "2025-10-21", "iso">>,
   <<"_", "2025-10-21", "iso">>,
   <<"_", "20251021", "compact">>,
   <<" - ", "export", "text">>,
   <<"", "", "none">>}

SampleDirs == {"", "/home/user/data/", "../in/"}

SampleFilenames ==
  {[dir |-> d, base |-> Base(n[1], n[2], st[1], st[2], st[3], e)] :
     d \in SampleDirs, n \in SampleNames, st \in SampleStamps,
     e \in {".csv", ".xlsx"}}

\* 'NAME - YYYY-MM-DD HH.MM.SS.ext'
TimestampForm(base) ==
  /\ base.sep = " - " /\ base.stamp_kind = "iso"
  /\ base.stamp \in {"2025-10-21 09.39.41", "2025-10-22 10.00.00"}

\* Two file names that differ only in the time stamp (and the directory)
ExportsOfOneAccount(base, other) ==
  /\ TimestampForm(base) /\ TimestampForm(other)
  /\ other = [base EXCEPT !.stamp = other.stamp]

InitExtract ==
  /\ registry = [exists |-> FALSE, readable |-> TRUE, accounts |-> EmptyAccounts]
  /\ now = 1
  /\ returned = {}
  /\ procs = <<>>
  /\ \E filename \in SampleFilenames, other \in SampleFilenames :
       /\ other.base.name = filename.base.name
       /\ other.base.ext = filename.base.ext
       /\ last = [op |-> "filename", filename |-> filename, other |-> other,
                  ret |-> <<>>, ret_other |-> <<>>]

\* extract_account_from_filename(filename), called up to three times, and of the
\* other file name once
ExtractAccountFromFilename ==
  /\ Len(last.ret) < 3
  /\ last' = [last EXCEPT
                !.op = "extract_account_from_filename",
                !.ret = Append(@, extract_account_from_filename(last.filename)),
                !.ret_other = <<extract_account_from_filename(last.other)>>]
  /\ UNCHANGED <<registry, now, returned, procs>>

NextExtract == ExtractAccountFromFilename

SpecExtract == InitExtract /\ [][NextExtract]_vars

(***************************************************************************)
(* Two import_and_parse(path, True) calls on different files, each in a    *)
(* process of its own.  The registry has no lock: every load_accounts()    *)
(* and every save_accounts() of a call is one step, and the steps of the   *)
(* two calls interleave.  A call is                                        *)
(*   [path, account, stage, step, snapshot, created, transactions,         *)
(*    balance_info, i, new, duplicates, blocked, raised, stale]            *)
(* stage is the function of account_manager the call is in, step the       *)
(* statement of it that comes next, snapshot the document its              *)
(* load_accounts() read (with what the function put in the dict since),    *)
(* created the document the load_accounts() of get_or_create_account read, *)
(* and stale tells that the call saved a dict read from a document that    *)
(* was written by the other call in between.                               *)
(***************************************************************************)

ConcurrentPaths == {P1, P2, P6}

Committing == {"register_transactions", "update_account_balance", "add_imported_file"}

NewCall(path) ==
  [path |-> path, account |-> extract_account_from_filename(path),
   stage |-> "is_file_imported", step |-> "load",
   snapshot |-> [exists |-> FALSE, readable |-> TRUE, accounts |-> EmptyAccounts],
   created |-> [exists |-> FALSE, readable |-> TRUE, accounts |-> EmptyAccounts],
   transactions |-> <<>>, balance_info |-> <<>>, i |-> 1, new |-> <<>>,
   duplicates |-> <<>>, blocked |-> FALSE, raised |-> None, stale |-> FALSE]

\* what follows register_transactions in step 7
after_register(call) ==
  IF call.balance_info # <<>> THEN "update_account_balance" ELSE "add_imported_file"

\* what follows filter_duplicate_transactions in step 7
after_filter(call) ==
  IF call.new # <<>> THEN "register_transactions" ELSE after_register(call)

\* the stage after a function of step 7 saved
after_save(call) ==
  CASE call.stage = "register_transactions" -> after_register(call)
    [] call.stage = "update_account_balance" -> "add_imported_file"
    [] call.stage = "add_imported_file" -> "returned"

\* the document a function of step 7 saves, from the document it read
saved(call, tick) ==
  CASE call.stage = "register_transactions" ->
         register_transactions(call.snapshot, call.account, call.new)
    [] call.stage = "update_account_balance" ->
         update_account_balance(call.snapshot, call.account, call.balance_info[1],
                                call.balance_info[2], call.balance_info[3])
    [] call.stage = "add_imported_file" ->
         add_imported_file(call.snapshot, call.account, call.path, tick)

\* the call with the transactions of its file, at the loop of
\* filter_duplicate_transactions or past it
parsed_call(call, parsed) ==
  LET filled == [call EXCEPT !.transactions = parsed.transactions,
                             !.balance_info = parsed.balance_info]
  IN [filled EXCEPT !.stage = IF parsed.transactions # <<>> THEN "filter"
                              ELSE after_filter(filled)]

InitConcurrent ==
  /\ registry = [exists |-> FALSE, readable |-> TRUE, accounts |-> EmptyAccounts]
  /\ now = 1
  /\ last = Call("start", NoPath, FALSE, "", "", None, FALSE, <<>>, <<>>, FALSE,
                 EmptyAccounts, NoPath)
  /\ returned = {}
  /\ \E path1 \in ConcurrentPaths :
       \E path2 \in ConcurrentPaths \ {path1} :
         procs = <<NewCall(path1), NewCall(path2)>>

\* step 2, is_file_imported (one load_accounts), and steps 3 to 6 on the file
IsFileImported(p) ==
  /\ procs[p].stage = "is_file_imported"
  /\ procs' = [procs EXCEPT ![p] =
       IF is_file_imported(registry, @.account, @.path)
         THEN [@ EXCEPT !.stage = "returned", !.blocked = TRUE]
       ELSE IF Parsed[@.path].raised # None
         THEN [@ EXCEPT !.stage = "raised", !.raised = Parsed[@.path].raised]
       ELSE parsed_call(@, Parsed[@.path])]
  /\ UNCHANGED <<registry, now, last, returned>>

\* one turn of the loop of filter_duplicate_transactions: is_transaction_duplicate
\* (one load_accounts) of the next transaction
IsTransactionDuplicate(p) ==
  /\ procs[p].stage = "filter"
  /\ procs' = [procs EXCEPT ![p] =
       LET t == @.transactions[@.i]
           sorted == IF is_transaction_duplicate(registry, @.account, t)
                       THEN [@ EXCEPT !.duplicates = Append(@, t), !.i = @ + 1]
                       ELSE [@ EXCEPT !.new = Append(@, t), !.i = @ + 1]
       IN IF sorted.i > Len(sorted.transactions)
            THEN [sorted EXCEPT !.stage = after_filter(sorted)]
            ELSE sorted]
  /\ UNCHANGED <<registry, now, last, returned>>

\* accounts = load_accounts() of register_transactions, update_account_balance
\* and add_imported_file
LoadStep(p) ==
  /\ procs[p].stage \in Committing /\ procs[p].step = "load"
  /\ procs' = [procs EXCEPT ![p] =
       [@ EXCEPT !.snapshot = registry,
                 !.step = IF procs[p].account \in DOMAIN load_accounts(registry)
                            THEN "save" ELSE "create_load"]]
  /\ UNCHANGED <<registry, now, last, returned>>

\* accounts = load_accounts() of get_or_create_account, and its return of an
\* account that is there
GetOrCreateLoad(p) ==
  /\ procs[p].stage \in Committing /\ procs[p].step = "create_load"
  /\ procs' = [procs EXCEPT ![p] =
       IF @.account \in DOMAIN load_accounts(registry)
         THEN [@ EXCEPT !.snapshot = save_accounts(Put(load_accounts(@), procs[p].account,
                                       load_accounts(registry)[procs[p].account])),
                        !.step = "save"]
         ELSE [@ EXCEPT !.created = registry, !.step = "create_save"]]
  /\ UNCHANGED <<registry, now, last, returned>>

\* save_accounts(accounts) of get_or_create_account, and its return of the new
\* account
GetOrCreateSave(p) ==
  /\ procs[p].stage \in Committing /\ procs[p].step = "create_save"
  /\ registry' = save_accounts(Put(load_accounts(procs[p].created), procs[p].account,
                                   NewAccount(procs[p].account)))
  /\ procs' = [procs EXCEPT ![p] =
       [@ EXCEPT !.snapshot = save_accounts(Put(load_accounts(@), procs[p].account,
                                  NewAccount(procs[p].account))),
                 !.stale = @ \/ registry # procs[p].created,
                 !.step = "save"]]
  /\ UNCHANGED <<now, last, returned>>

\* save_accounts(accounts) of register_transactions, update_account_balance and
\* add_imported_file, which reads datetime.now()
SaveStep(p) ==
  /\ procs[p].stage \in Committing /\ procs[p].step = "save"
  /\ procs[p].stage = "add_imported_file" => now <= MaxClock
  /\ registry' = saved(procs[p], now)
  /\ now' = IF procs[p].stage = "add_imported_file" THEN now + 1 ELSE now
  /\ procs' = [procs EXCEPT ![p] =
       [@ EXCEPT !.stage = after_save(procs[p]),
                 !.step = "load",
                 !.stale = @ \/ load_accounts(registry) # load_accounts(procs[p].snapshot)]]
  /\ UNCHANGED <<last, returned>>

NextConcurrent ==
  \E p \in {1, 2} :
    \/ IsFileImported(p)
    \/ IsTransactionDuplicate(p)
    \/ LoadStep(p)
    \/ GetOrCreateLoad(p)
    \/ GetOrCreateSave(p)
    \/ SaveStep(p)

SpecConcurrent == InitConcurrent /\ [][NextConcurrent]_vars

(***************************************************************************)
(* Properties.  A step is read off last': the call it made, its arguments  *)
(* and what it returned; registry is the document before the call and      *)
(* registry' the document after it.                                        *)
(***************************************************************************)

\* The account's transaction_hashes in the document ({} for an unknown account)
StoredHashes(reg, account_name) ==
  IF reg.exists /\ account_name \in DOMAIN reg.accounts
    THEN reg.accounts[account_name].transaction_hashes
    ELSE {}

\* The account's imported_files in the document (<<>> for an unknown account)
FileRecords(reg, account_name) ==
  IF reg.exists /\ account_name \in DOMAIN reg.accounts
    THEN reg.accounts[account_name].imported_files
    ELSE <<>>

\* The account has a record of the path's basename or of the file's checksum
Recorded(reg, account_name, path) ==
  \E i \in 1..Len(FileRecords(reg, account_name)) :
    \/ FileRecords(reg, account_name)[i].filename = path_name(path)
    \/ /\ FileAt(path).exists
       /\ FileRecords(reg, account_name)[i].checksum = <<"md5", FileAt(path).bytes>>

IsImport(call) == call.op = "import_and_parse"

DedupImport(call) == IsImport(call) /\ call.check_duplicates

\* The file parses, and to at least one transaction whose hash the account lacks
ParsesToNew(reg, account_name, path) ==
  /\ Parsed[path].raised = None
  /\ \E i \in 1..Len(Parsed[path].transactions) :
       calculate_transaction_hash(Parsed[path].transactions[i])
         \notin StoredHashes(reg, account_name)

\* A dedup-enabled import of a path right after a dedup-enabled import of the same
\* path that returned: it returns [] and leaves the document as it was.
SecondImportIsEmpty ==
  (/\ DedupImport(last) /\ last.raised = None
   /\ DedupImport(last') /\ last'.path = last.path)
    => /\ last'.raised = None
       /\ last'.ret = <<>>
       /\ registry' = registry

ContentImportedUnderOtherName(reg, path) ==
  /\ reg.exists /\ FileAt(path).exists
  /\ \E a \in DOMAIN reg.accounts :
       \E i \in 1..Len(reg.accounts[a].imported_files) :
         /\ reg.accounts[a].imported_files[i].checksum = <<"md5", FileAt(path).bytes>>
         /\ reg.accounts[a].imported_files[i].filename # path_name(path)

\* C2 as stated: once a file's content has been imported with dedup enabled (and
\* is on record), a dedup-enabled import of a byte-identical copy under any other
\* filename returns [] and adds no hash and no file record to the registry.
C2_Original ==
  [][(DedupImport(last') /\ ContentImportedUnderOtherName(registry, last'.path))
       => /\ last'.ret = <<>>
          /\ registry' = registry]_vars

\* C3 as stated: among the transactions that dedup-enabled imports return for one
\* account, with no delete_account or clear_all_accounts in between, no hash
\* occurs twice: not in the list of one call, and not in the lists of two calls.
C3_Original ==
  [][DedupImport(last')
       => /\ \A i, j \in 1..Len(last'.ret) :
               i # j => calculate_transaction_hash(last'.ret[i])
                          # calculate_transaction_hash(last'.ret[j])
          /\ \A i \in 1..Len(last'.ret) :
               <<last'.account, calculate_transaction_hash(last'.ret[i])>>
                 \notin returned]_vars

\* C4: a dedup-enabled import that passes the file-level pre-check (and raises
\* nothing) returns the parsed transactions, in file order, whose hash was not in
\* the account's transaction_hashes before the call, and reports the others as
\* duplicates; an unknown account has no hashes.
C4_Partition ==
  [][(DedupImport(last') /\ ~last'.blocked /\ last'.raised = None)
       => /\ last'.ret =
               SelectSeq(Parsed[last'.path].transactions,
                 LAMBDA t : calculate_transaction_hash(t)
                              \notin StoredHashes(registry, last'.account))
          /\ last'.duplicates =
               SelectSeq(Parsed[last'.path].transactions,
                 LAMBDA t : calculate_transaction_hash(t)
                              \in StoredHashes(registry, last'.account))]_vars

\* An import that returned some transactions of the file and reported others as
\* duplicates.
C4_Witness ==
  /\ DedupImport(last) /\ ~last.blocked /\ last.raised = None
  /\ last.ret # <<>> /\ last.duplicates # <<>>
  /\ Len(last.ret) + Len(last.duplicates) = Len(Parsed[last.path].transactions)

\* C5: import_and_parse with check_duplicates=False leaves the registry document as
\* it was, and when it returns it returns every parsed transaction of the file,
\* whatever the registry holds.
C5_Preview ==
  [][(IsImport(last') /\ ~last'.check_duplicates)
       => /\ registry' = registry
          /\ ~last'.blocked
          /\ last'.raised = Parsed[last'.path].raised
          /\ last'.raised = None => last'.ret = Parsed[last'.path].transactions]_vars

\* A preview of a file the account has on record, with every hash stored: all its
\* transactions are returned.
C5_Witness ==
  /\ IsImport(last) /\ ~last.check_duplicates
  /\ last.ret # <<>>
  /\ last.ret = Parsed[last.path].transactions
  /\ Recorded(registry, last.account, last.path)
  /\ hashes_of(last.ret) \subseteq StoredHashes(registry, last.account)

\* C6: a dedup-enabled import that raises (the file is missing, its suffix is
\* unsupported, no attempt of the cascade reads it) leaves the registry document
\* as it was: no account created, no hash, balance or file record written.
C6_FatalLoad ==
  [][(DedupImport(last') /\ last'.raised # None)
       => /\ registry' = registry
          /\ last'.ret = <<>>]_vars

\* A dedup-enabled import raised FileNotFoundError or ValueError, and the registry,
\* which has accounts, has none of the file's name.
C6_Witness ==
  /\ DedupImport(last)
  /\ last.raised \in {"FileNotFoundError", "ValueError"}
  /\ registry.exists /\ DOMAIN registry.accounts # {}
  /\ last.account \notin DOMAIN registry.accounts

\* C7 as stated: on a registry document that exists but cannot be read,
\* load_accounts and a dedup-enabled import_and_parse fail with that error, and the
\* document is not replaced by one without the stored accounts.
C7_Original ==
  [][(/\ registry.exists /\ ~registry.readable
      /\ (last'.op = "load_accounts" \/ DedupImport(last')))
       => /\ last'.raised = "PersistenceFailure"
          /\ registry' = registry]_vars

\* C8: a dedup-enabled import of a file, right after delete_imported_file removed
\* the record a dedup-enabled import of that file had just written, is not blocked
\* by the pre-check, returns no transaction, leaves the account's hashes as they
\* are and appends the file's record again.
C8_Asymmetry ==
  [][(DedupImport(last') /\ last'.after_import # NoPath)
       => /\ last'.path = last'.after_import
          /\ ~last'.blocked
          /\ last'.raised = None
          /\ last'.ret = <<>>
          /\ StoredHashes(registry', last'.account) = StoredHashes(registry, last'.account)
          /\ hashes_of(Parsed[last'.path].transactions)
               \subseteq StoredHashes(registry, last'.account)
          /\ FileRecords(registry', last'.account) =
               Append(FileRecords(registry, last'.account),
                      [filename |-> last'.filename,
                       checksum |-> <<"md5", FileAt(last'.path).bytes>>,
                       import_date |-> isoformat(now)])]_vars

\* The re-import after the delete, of a file with transactions: not blocked, []
\* returned, the file on record again.
C8_Witness ==
  /\ DedupImport(last) /\ last.after_import = last.path /\ last.path # NoPath
  /\ Parsed[last.path].transactions # <<>>
  /\ ~last.blocked /\ last.ret = <<>>
  /\ Recorded(registry, last.account, last.path)

\* Every account of the document before is in the document after, except those of
\* gone, with at least the hashes it had
HashesKept(gone) ==
  \A a \in DOMAIN registry.accounts \ gone :
    /\ registry'.exists /\ a \in DOMAIN registry'.accounts
    /\ registry.accounts[a].transaction_hashes
         \subseteq registry'.accounts[a].transaction_hashes

\* C9: import_and_parse (either mode), delete_imported_file and load_accounts keep
\* every account with a superset of its transaction_hashes; delete_account keeps
\* those of every other account.  A hash leaves the registry only by
\* delete_account of its account or by clear_all_accounts.
C9_HashesGrow ==
  [][/\ last'.op \in {"import_and_parse", "delete_imported_file", "load_accounts"}
          => HashesKept({})
     /\ last'.op = "delete_account" => HashesKept({last'.account})]_vars

\* delete_imported_file removed the last record of an account that has hashes.
C9_Witness ==
  /\ last.op = "delete_imported_file" /\ last.ok
  /\ FileRecords(registry, last.account) = <<>>
  /\ StoredHashes(registry, last.account) # {}

\* The account has a record with this filename
HasRecord(reg, account_name, filename) ==
  \E i \in 1..Len(FileRecords(reg, account_name)) :
    FileRecords(reg, account_name)[i].filename = filename

\* C10: delete_imported_file(account, filename) returns True exactly when the
\* account exists and has a record with that filename; it then removes every
\* record with that filename and changes nothing else; when it returns False the
\* registry document is as before.
C10_DeleteFile ==
  [][last'.op = "delete_imported_file"
       => /\ last'.ok = HasRecord(registry, last'.account, last'.filename)
          /\ IF HasRecord(registry, last'.account, last'.filename)
               THEN /\ registry'.exists
                    /\ registry'.accounts =
                         [registry.accounts EXCEPT
                            ![last'.account].imported_files =
                              SelectSeq(@, LAMBDA f : f.filename # last'.filename)]
               ELSE registry' = registry]_vars

\* delete_imported_file returned True and left the account its other record, its
\* hashes and its balance.
C10_Witness ==
  /\ last.op = "delete_imported_file" /\ last.ok
  /\ Len(FileRecords(registry, last.account)) = 1
  /\ ~HasRecord(registry, last.account, last.filename)
  /\ StoredHashes(registry, last.account) # {}
  /\ load_accounts(registry)[last.account].current_balance # None

\* C11: delete_account(name) returns True exactly when the account exists; the
\* account is then absent from the registry and every other account is as before;
\* when it returns False the registry document is as before.  A dedup-enabled
\* import, right after the deletion, of the file imported right before it is not
\* blocked and returns all of the file's transactions again.
C11_DeleteAccount ==
  [][/\ last'.op = "delete_account"
          => /\ last'.ok = (registry.exists /\ last'.account \in DOMAIN registry.accounts)
             /\ IF registry.exists /\ last'.account \in DOMAIN registry.accounts
                  THEN /\ registry'.exists
                       /\ DOMAIN registry'.accounts =
                            DOMAIN registry.accounts \ {last'.account}
                       /\ last'.account \notin DOMAIN load_accounts(registry')
                       /\ \A a \in DOMAIN registry'.accounts :
                            registry'.accounts[a] = registry.accounts[a]
                  ELSE registry' = registry
     /\ (/\ last.op = "delete_account" /\ last.after_import # NoPath
         /\ DedupImport(last') /\ last'.path = last.after_import)
          => /\ ~last'.blocked
             /\ last'.raised = None
             /\ last'.ret = Parsed[last'.path].transactions
             /\ last'.duplicates = <<>>]_vars

\* delete_account returned True right after an import recorded a file with
\* transactions in that account; the account is gone and another account is left.
C11_Witness ==
  /\ last.op = "delete_account" /\ last.ok
  /\ last.after_import # NoPath
  /\ Parsed[last.after_import].transactions # <<>>
  /\ last.account \notin DOMAIN registry.accounts
  /\ DOMAIN registry.accounts # {}

\* C12: load_accounts right after save_accounts(accounts) returns accounts: the
\* same names, each with equal account_number, imported_files (in order),
\* transaction_hashes (as a set), last_import_date, balance_date,
\* balance_currency and current_balance (the exact decimal).
C12_RoundTrip ==
  [][(last.op = "save_accounts" /\ last'.op = "load_accounts")
       => last'.loaded = last.loaded]_vars

\* load_accounts returned two accounts, one of them with file records, hashes, an
\* import date, a balance date and a balance with trailing zeros.
C12_Witness ==
  /\ last.op = "load_accounts"
  /\ DOMAIN last.loaded = {"TEST_KONTO", "kopia"}
  /\ last.loaded["TEST_KONTO"].current_balance = "1250.00"
  /\ last.loaded["TEST_KONTO"].balance_date = "2025-01-17"
  /\ last.loaded["TEST_KONTO"].last_import_date = <<2>>
  /\ Len(last.loaded["TEST_KONTO"].imported_files) = 2
  /\ last.loaded["TEST_KONTO"].transaction_hashes # {}
  /\ last.loaded["TEST_KONTO"].account_number = "1234567890"

\* Same date, same amount string, same description and same currency
SameQuadText(t1, t2) ==
  /\ t1.date = t2.date /\ t1.amount = t2.amount
  /\ t1.description = t2.description /\ t1.currency = t2.currency

\* C13: two Transactions with the same date, amount string, description and
\* currency have the same hash, whatever their category and metadata; hashing a
\* Transaction again gives the same value.
C13_HashOfQuad ==
  last.op = "calculate_transaction_hash"
    => /\ SameQuadText(last.ret[1], last.ret[2])
            => last.duplicates[1] = last.duplicates[2]
       /\ last.duplicates[1] = calculate_transaction_hash(last.ret[1])
       /\ last.duplicates[2] = calculate_transaction_hash(last.ret[2])

\* Two Transactions hashed that differ in category and metadata only.
C13_Witness ==
  /\ last.op = "calculate_transaction_hash"
  /\ SameQuadText(last.ret[1], last.ret[2])
  /\ last.ret[1].category # last.ret[2].category
  /\ last.ret[1].metadata # last.ret[2].metadata
  /\ last.duplicates[1] = last.duplicates[2]

\* C14 as stated: the digested strings of two Transactions are the same exactly
\* when their date, amount (in its exact decimal string), description and
\* currency are all equal.
C14_Original ==
  last.op = "calculate_transaction_hash"
    => ((transaction_str(last.ret[1]) = transaction_str(last.ret[2]))
          <=> SameQuadText(last.ret[1], last.ret[2]))

\* C15: for a non-empty dataset with the columns of a reference layout, in
\* whatever letter case, detect_format returns the bank of the layout:
\* Swedbank, SEB, Nordea (both Nordea layouts) or Revolut.
C15_ReferenceFormats ==
  (last.op = "detect_format" /\ Len(last.loaded.rows) > 0)
    => last.ret = last.account

\* A Nordea export with a Saldo column, written in upper case, was detected.
C15_Witness ==
  /\ last.op = "detect_format"
  /\ Len(last.loaded.rows) > 0
  /\ last.loaded.columns
       = <<"BOKFÖRINGSDAG", "BELOPP", "NAMN", "RUBRIK", "SALDO", "VALUTA">>
  /\ last.ret = "Nordea"

\* C16: no transaction that import_and_parse returns, with or without
\* deduplication, has an amount equal to zero (Transaction's validator raises on
\* 0, 0.0 and 0.00, and the row is skipped).
C16_NoZeroAmount ==
  IsImport(last)
    => \A i \in 1..Len(last.ret) : last.ret[i].amount \notin ZeroDecimals

\* An import returned the salary of a file that also has a line of amount zero.
C16_Witness ==
  /\ IsImport(last) /\ last.raised = None /\ ~last.blocked
  /\ \E i \in 1..Len(Loaded[last.path].data.rows) :
       Loaded[last.path].data.rows[i]["Belopp"] \in ZeroDecimals
  /\ last.ret # <<>>
  /\ Len(last.ret) < Len(Loaded[last.path].data.rows)

\* C17: extract_account_from_filename returns the same name at every call for
\* the same file name, the same name with and without the leading directory,
\* NAME for a basename 'NAME - YYYY-MM-DD HH.MM.SS.ext', and so the same name for
\* two exports that differ only in the time stamp.
C17_AccountOfBasename ==
  last.op = "extract_account_from_filename"
    => /\ \A i \in 1..Len(last.ret) : last.ret[i] = last.ret[1]
       /\ last.ret[1]
            = extract_account_from_filename([last.filename EXCEPT !.dir = ""])
       /\ TimestampForm(last.filename.base)
            => last.ret[1] = last.filename.base.name
       /\ ExportsOfOneAccount(last.filename.base, last.other.base)
            => last.ret_other[1] = last.ret[1]

\* Two exports of 'PERSONKONTO 1709 20 72840' with different time stamps, one
\* given with its directory, were named, the first of them three times.
C17_Witness ==
  /\ last.op = "extract_account_from_filename"
  /\ Len(last.ret) = 3
  /\ last.filename.dir = "/home/user/data/" /\ last.other.dir = ""
  /\ ExportsOfOneAccount(last.filename.base, last.other.base)
  /\ last.filename.base.stamp # last.other.base.stamp
  /\ last.ret[3] = "PERSONKONTO 1709 20 72840"
  /\ last.ret_other = <<"PERSONKONTO 1709 20 72840">>

\* Both calls returned a list after the file-level pre-check let them pass.
BothReturned ==
  /\ Len(procs) = 2
  /\ \A p \in {1, 2} : procs[p].stage = "returned" /\ ~procs[p].blocked

\* The registry lacks a hash or the file record that the call wrote.
Lost(call) ==
  \/ ~(hashes_of(call.new) \subseteq StoredHashes(registry, call.account))
  \/ ~HasRecord(registry, call.account, path_name(call.path))

\* C18: two dedup-enabled imports of different files in two processes can both
\* return and leave the registry without hashes or the file record one of them
\* wrote (the witness); this happens only when a call saved accounts it had
\* loaded before a save of the other call.
C18_LostOnlyWhenInterleaved ==
  (BothReturned /\ \E p \in {1, 2} : Lost(procs[p]))
    => \E p \in {1, 2} : procs[p].stale

\* Both calls returned transactions, and the registry has neither the hashes nor
\* the file record of one of them.
C18_Witness ==
  /\ BothReturned
  /\ \A p \in {1, 2} : procs[p].new # <<>>
  /\ \E p \in {1, 2} :
       /\ ~(hashes_of(procs[p].new) \subseteq StoredHashes(registry, procs[p].account))
       /\ ~HasRecord(registry, procs[p].account, path_name(procs[p].path))

\* A dedup-enabled import that the pre-check let pass and that returned
Committed(call) == DedupImport(call) /\ ~call.blocked /\ call.raised = None

\* C19: after a dedup-enabled import_and_parse that passed the file-level
\* pre-check and returned, the account exists, its transaction_hashes are the
\* previous ones and the hashes of the returned transactions, and its
\* imported_files are the previous ones and one more record, with the basename
\* and the checksum of the file; so too when nothing was returned.
C19_CommitEffect ==
  [][Committed(last') =>
       /\ registry'.exists /\ last'.account \in DOMAIN registry'.accounts
       /\ StoredHashes(registry', last'.account)
            = StoredHashes(registry, last'.account) \cup hashes_of(last'.ret)
       /\ Len(FileRecords(registry', last'.account))
            = Len(FileRecords(registry, last'.account)) + 1
       /\ SubSeq(FileRecords(registry', last'.account), 1,
                 Len(FileRecords(registry, last'.account)))
            = FileRecords(registry, last'.account)
       /\ FileRecords(registry', last'.account)[
            Len(FileRecords(registry', last'.account))].filename
            = path_name(last'.path)
       /\ FileRecords(registry', last'.account)[
            Len(FileRecords(registry', last'.account))].checksum
            = calculate_file_checksum(last'.path)]_vars

\* A file whose transactions were all known already was imported again after
\* its record had been deleted: nothing was returned and the file is recorded.
C19_Witness ==
  /\ Committed(last)
  /\ last.ret = <<>>
  /\ Parsed[last.path].transactions # <<>>
  /\ last.after_import = last.path
  /\ HasRecord(registry, last.account, last.filename)
  /\ hashes_of(Parsed[last.path].transactions)
       \subseteq StoredHashes(registry, last.account)

\* current_balance, balance_date and balance_currency of the account in the
\* document; those of a new Account for an account that is not there
BalanceFields(reg, account_name) ==
  IF reg.exists /\ account_name \in DOMAIN reg.accounts
    THEN <<reg.accounts[account_name].current_balance,
           reg.accounts[account_name].balance_date,
           reg.accounts[account_name].balance_currency>>
    ELSE <<yaml_null, yaml_null, "SEK">>

\* C20: a dedup-enabled import_and_parse leaves every account other than the
\* one named after the file's basename as it was (none is added, removed or
\* changed), and leaves the balance, balance date and balance currency of that
\* account as they were when no balance was extracted from the file.
C20_ImportFrame ==
  [][DedupImport(last') =>
       /\ DOMAIN registry'.accounts \ {last'.account}
            = DOMAIN registry.accounts \ {last'.account}
       /\ \A a \in DOMAIN registry.accounts \ {last'.account} :
            registry'.accounts[a] = registry.accounts[a]
       /\ Parsed[last'.path].balance_info = <<>>
            => BalanceFields(registry', last'.account)
                 = BalanceFields(registry, last'.account)]_vars

\* A file without a balance was imported and recorded while the registry held
\* another account with hashes and a file record.
C20_Witness ==
  /\ Committed(last)
  /\ last.ret # <<>>
  /\ Parsed[last.path].balance_info = <<>>
  /\ BalanceFields(registry, last.account) = <<yaml_null, yaml_null, "SEK">>
  /\ \E a \in DOMAIN registry.accounts \ {last.account} :
       /\ registry.accounts[a].transaction_hashes # {}
       /\ registry.accounts[a].imported_files # <<>>

\* C21 as stated: an import_and_parse that raises leaves the registry document
\* as it was before the call, and no account ever stores the hash of a
\* transaction that no import returned for it.
C21_Original ==
  [][/\ (IsImport(last') /\ last'.raised # None) => registry' = registry
     /\ \A a \in DOMAIN registry'.accounts :
          \A h \in registry'.accounts[a].transaction_hashes :
            <<a, h>> \in returned']_vars

\* The case-folded column names of the DataFrame
Folded(data) == {lower(c) : c \in Range(data.columns)}

\* C22 as stated: for a non-empty dataset whose case-folded columns hold a
\* booking date (bokföringsdatum or bokföringsdag), belopp and one of rubrik,
\* namn, avsändare, mottagare, detect_format never returns Unknown: it returns
\* Nordea, or SEB for a layout with saldo and without valutadatum and rubrik.
C22_Original ==
  (/\ last.op = "detect_format"
   /\ Len(last.data.rows) > 0
   /\ Folded(last.data) \cap {"bokföringsdatum", "bokföringsdag"} # {}
   /\ "belopp" \in Folded(last.data)
   /\ Folded(last.data) \cap {"rubrik", "namn", "avsändare", "mottagare"} # {})
    => /\ last.format # "Unknown"
       /\ last.format \in {"Nordea", "SEB"}
       /\ last.format = "SEB"
            => /\ "saldo" \in Folded(last.data)
               /\ Folded(last.data) \cap {"valutadatum", "rubrik"} = {}

\* The Saldo column holds currency codes: some value, and none that is no code
SaldoHoldsCodes(data) ==
  /\ HasColumn(data, "Saldo")
  /\ dropna(Column(data, "Saldo")) # <<>>
  /\ \A v \in Range(dropna(Column(data, "Saldo"))) : upper(strip(v)) \in CurrencyCodes

\* C23 as stated: normalize_columns with format Nordea takes the currency from
\* Saldo only when Valuta is entirely null and Saldo holds currency codes, and
\* no transaction gets a numeric balance value as its currency.
C23_Original ==
  (last.op = "import_and_parse" /\ last.format = "Nordea")
    => /\ <<"Saldo", "currency">> \in column_mapping(last.data, "Nordea")
            => /\ HasColumn(last.data, "Valuta")
               /\ isna_all(Column(last.data, "Valuta"))
               /\ SaldoHoldsCodes(last.data)
       /\ \A i \in 1..Len(last.transactions) :
            ~parses_as_decimal(last.transactions[i].currency)

\* The first of Rubrik, Namn, Avsändare, Mottagare that has a non-empty value in
\* the row, as a sequence of at most one column
FirstDescribed(data, row) ==
  SelectSeq(DescriptionColumns,
    LAMBDA c : /\ HasColumn(data, c)
               /\ row[c] # NaN /\ strip(row[c]) # ""
               /\ \A k \in 1..4 :
                    (/\ HasColumn(data, DescriptionColumns[k])
                     /\ row[DescriptionColumns[k]] # NaN
                     /\ strip(row[DescriptionColumns[k]]) # "")
                      => \E j \in 1..k : DescriptionColumns[j] = c)

\* C24 as stated: for a Nordea dataset the description of each imported row is
\* the first non-empty value among Rubrik, Namn, Avsändare, Mottagare of that
\* row, and 'Transaktion' only when all of them are empty.
C24_Original ==
  (last.op = "import_and_parse" /\ last.format = "Nordea")
    => /\ Len(last.transactions) = Len(last.data.rows)
       /\ \A i \in 1..Len(last.transactions) :
            last.transactions[i].description
              = IF FirstDescribed(last.data, last.data.rows[i]) = <<>>
                  THEN "Transaktion"
                  ELSE strip(last.data.rows[i][FirstDescribed(last.data, last.data.rows[i])[1]])

\* C25 as stated: extract_balance_info raises on no dataset, a Nordea or SEB
\* one whose last booking date is no date included, so an import_and_parse that
\* loaded its file does not fail in it.
C25_Original ==
  (IsImport(last) /\ ~last.blocked /\ Loaded[last.path].raised = None)
    => /\ Balance[last.path].raised = None
       /\ last.raised # "DateParseError"

\* The rows of the file, normalised, whose date parses and whose amount parses to
\* a decimal that is not zero
GoodRows(path) ==
  SelectSeq(Normalized[path].rows,
    LAMBDA row : /\ row["date"] # NaN /\ row["date"] \in DateStrings
                 /\ row["amount"] # NaN
                 /\ replace_comma(row["amount"]) \in DecimalStrings \ ZeroDecimals)

\* C26 as stated: for every loaded file, import_and_parse does not fail and the
\* transactions it parses are, in file order, the rows whose date parses and
\* whose amount parses to a non-zero decimal.
C26_Original ==
  (/\ IsImport(last) /\ ~last.check_duplicates
   /\ Loaded[last.path].raised = None)
    => /\ last.raised = None
       /\ Len(last.ret) = Len(GoodRows(last.path))
       /\ \A i \in 1..Len(last.ret) :
            /\ last.ret[i].date = to_date(GoodRows(last.path)[i]["date"])
            /\ last.ret[i].amount = replace_comma(GoodRows(last.path)[i]["amount"])

\* C27 as stated: whenever detect_format returns a tag other than Unknown,
\* normalize_columns with that tag on the same dataset yields a date and an
\* amount column, whatever the letter case of the column names and whatever
\* rule gave the tag.
C27_Original ==
  (last.op = "normalize_columns" /\ last.format # "Unknown")
    => {"date", "amount"} \subseteq Range(last.normalized.columns)

\* C28 as stated: at every point of a sequential run from the empty registry,
\* the transaction_hashes of each account are exactly the hashes of the
\* transactions that dedup-enabled imports have returned for the account: no
\* hash is stored for a transaction that was never returned, and every returned
\* transaction's hash is stored.
C28_Original ==
  /\ \A a \in DOMAIN registry.accounts :
       registry.accounts[a].transaction_hashes = {r[2] : r \in {q \in returned : q[1] = a}}
  /\ \A r \in returned : r[1] \in DOMAIN registry.accounts

\* The file records are pairwise different in filename and in checksum
UniqueRecords(files) ==
  \A i \in 1..Len(files) : \A j \in 1..Len(files) :
    i # j => /\ files[i].filename # files[j].filename
             /\ files[i].checksum # files[j].checksum

\* The filename is the name part of an imported path, without its directory
IsBasename(filename) ==
  \E path \in Paths :
    /\ filename = path_name(path)
    /\ filename # path.dir \o path_name(path)

\* C29: in every state reachable from the empty registry, no account holds two
\* file records with the same filename or with the same checksum, and the
\* filename of every record is a basename without directory part.
C29_UniqueRecords ==
  \A a \in DOMAIN registry.accounts :
    /\ UniqueRecords(registry.accounts[a].imported_files)
    /\ \A i \in 1..Len(registry.accounts[a].imported_files) :
         IsBasename(registry.accounts[a].imported_files[i].filename)

\* A dedup-enabled import has just committed the second file record of an
\* account, after an earlier import of another file into the same account.
C29_Witness ==
  /\ DedupImport(last) /\ last.raised = None
  /\ last.account \in DOMAIN registry.accounts
  /\ Len(registry.accounts[last.account].imported_files) = 2
  /\ registry.accounts[last.account].imported_files[2].filename = path_name(last.path)

\* C30 as stated: a dedup-enabled import of a file that loads and parses returns
\* every parsed transaction whose hash the account does not hold yet, also when
\* the account has a record of a file with the same basename and other content.
C30_Original ==
  [][(DedupImport(last') /\ Parsed[last'.path].raised = None)
       => \A i \in 1..Len(Parsed[last'.path].transactions) :
            calculate_transaction_hash(Parsed[last'.path].transactions[i])
                \notin StoredHashes(registry, last'.account)
              => \E j \in 1..Len(last'.ret) :
                   last'.ret[j] = Parsed[last'.path].transactions[i]]_vars

====
